---- MODULE Spec2Model ----
(***************************************************************************)
(* Sampling structures of pbrt: PiecewiseConstant1D / PiecewiseConstant2D, *)
(* SampleDiscrete and SummedAreaTable, as state machines whose initial     *)
(* state is a constructed object and whose actions are the query methods.  *)
(* Float values are exact rationals <<num, den>> (den > 0, lowest terms);  *)
(* a division by zero yields <<0,0>> (NaN) or <<+-1,0>> (infinity).        *)
(***************************************************************************)
EXTENDS Integers, Sequences, FiniteSets, TLC

VARIABLES dist1, dist2, weights, sat, values, spectrum, lambda, material,
          estimators, reservoirs, sampler, ret, prev

\* the constructed objects and the arrays they were built from: no query
\* method of a distribution assigns to them
objs == <<dist1, dist2, weights, sat, values, spectrum, lambda, material,
          estimators, reservoirs, sampler>>

vars == <<dist1, dist2, weights, sat, values, spectrum, lambda, material,
          estimators, reservoirs, sampler, ret, prev>>

(* ---------------------------------------------------------------------- *)
(* Bounds of the model                                                    *)
(* ---------------------------------------------------------------------- *)
MaxN == 3
MaxFunc == 2
MaxCells == 4
UDen == 6
MaxRes == 13
MaxIter == 30
MaxBisect == 6
MaxPLNodes == 6
PLDen == 4
TriDen == 8
StepDen == 8
MaxStep == 3
MaxSamples == 3
MaxFile == 4
MaxCalls == 2
NThreads == 2
MaxAdds == 3
MaxConsidered == 3
ArraySize_CMaxMinDist == 5
MaxSpp == 128

(* ---------------------------------------------------------------------- *)
(* Float arithmetic                                                       *)
(* ---------------------------------------------------------------------- *)
Abs(i) == IF i < 0 THEN -i ELSE i

Sign(i) == IF i < 0 THEN -1 ELSE IF i > 0 THEN 1 ELSE 0

RECURSIVE GCD(_, _)
GCD(a, b) == IF b = 0 THEN a ELSE GCD(b, a % b)

\* the Float n/d; d = 0 gives NaN (n = 0) or a signed infinity
F(n, d) ==
    IF d = 0 THEN <<Sign(n), 0>>
    ELSE LET g == GCD(Abs(n), Abs(d))
             s == Sign(d)
         IN  <<(s * n) \div g, (s * d) \div g>>

FromInt(i) == <<i, 1>>

NaN == <<0, 0>>

IsFinite(a) == a[2] # 0

IsNaN(a) == a = NaN

FAdd(a, b) ==
    IF IsFinite(a) /\ IsFinite(b) THEN F(a[1] * b[2] + b[1] * a[2], a[2] * b[2])
    ELSE IF IsNaN(a) \/ IsNaN(b) THEN NaN
    ELSE IF IsFinite(a) THEN b
    ELSE IF IsFinite(b) \/ a = b THEN a
    ELSE NaN

FNeg(a) == <<-a[1], a[2]>>

FSub(a, b) == FAdd(a, FNeg(b))

FMul(a, b) ==
    IF IsFinite(a) /\ IsFinite(b) THEN F(a[1] * b[1], a[2] * b[2])
    ELSE <<Sign(a[1] * b[1]), 0>>

FDiv(a, b) ==
    IF IsFinite(a) /\ IsFinite(b) THEN F(a[1] * b[2], a[2] * b[1])
    ELSE IF IsFinite(b) /\ ~IsNaN(a) THEN <<a[1] * Sign(b[1]), 0>>
    ELSE IF IsFinite(a) /\ ~IsNaN(b) THEN <<0, 1>>
    ELSE NaN

\* comparisons involving NaN are false
FLt(a, b) ==
    IF IsNaN(a) \/ IsNaN(b) THEN FALSE
    ELSE IF ~IsFinite(a) /\ ~IsFinite(b) THEN a[1] < b[1]
    ELSE a[1] * b[2] < b[1] * a[2]

FLe(a, b) == ~IsNaN(a) /\ ~IsNaN(b) /\ ~FLt(b, a)

\* (int)x of a finite Float: truncation toward zero
FInt(a) == IF a[1] >= 0 THEN a[1] \div a[2] ELSE -((-a[1]) \div a[2])

Zero == FromInt(0)

One == FromInt(1)

\* Clamp(val, low, high) on integers
Clamp(val, low, high) == IF val < low THEN low ELSE IF val > high THEN high ELSE val

\* Lerp(t, a, b) = (1 - t) * a + t * b
Lerp(t, a, b) == FAdd(FMul(FSub(One, t), a), FMul(t, b))

\* FindInterval(size, pred): the largest index for which pred holds (pred is
\* true on a prefix of the indices), 0 when there is none
FindInterval(sz, pred) ==
    LET S == {i \in 0..(sz - 1) : pred[i]}
    IN  IF S = {} THEN 0 ELSE CHOOSE i \in S : \A j \in S : j <= i

(* ---------------------------------------------------------------------- *)
(* Inputs                                                                 *)
(* ---------------------------------------------------------------------- *)
None == [op |-> "none"]

\* uniform samples in [0,1): every fraction of denominator at most UDen
USet == {F(k, d) : k \in 0..(UDen - 1), d \in 1..UDen} \ {a \in {F(k, d) : k \in 0..(UDen - 1), d \in 1..UDen} : ~FLt(a, One)}

\* arrays of n values, indexed from 0
Arrays(n, V) == [0..(n - 1) -> V]

FuncValues == {FromInt(v) : v \in 0..MaxFunc}

Domains == {<<FromInt(0), FromInt(1)>>, <<FromInt(-1), FromInt(3)>>}

(* ---------------------------------------------------------------------- *)
(* PiecewiseConstant1D                                                    *)
(* ---------------------------------------------------------------------- *)
\* the step-function integral up to x_i (first loop of the constructor)
RECURSIVE StepIntegral(_, _, _, _, _)
StepIntegral(func, min, max, n, i) ==
    IF i = 0 THEN Zero
    ELSE FAdd(StepIntegral(func, min, max, n, i - 1),
              FDiv(FMul(func[i - 1], FSub(max, min)), FromInt(n)))

\* faulty variant: the zero-integral case is not handled
NormalizeCdf_AlwaysDivide(raw, funcInt, n) ==
    [i \in 0..n |-> IF i = 0 THEN raw[0] ELSE FDiv(raw[i], funcInt)]

NormalizeCdf(raw, funcInt, n) ==
    IF funcInt = Zero
    THEN [i \in 0..n |-> IF i = 0 THEN raw[0] ELSE FDiv(FromInt(i), FromInt(n))]
    ELSE [i \in 0..n |-> IF i = 0 THEN raw[0] ELSE FDiv(raw[i], funcInt)]

PiecewiseConstant1D(f, n, min, max) ==
    LET raw == [i \in 0..n |-> StepIntegral(f, min, max, n, i)]
        funcInt == raw[n]
    IN  [func |-> f, n |-> n, cdf |-> NormalizeCdf(raw, funcInt, n),
         min |-> min, max |-> max, funcInt |-> funcInt]

\* faulty variant: strict comparison in the search predicate
GetOffset_Strict(d, u) == FindInterval(d.n + 1, [index \in 0..d.n |-> FLt(d.cdf[index], u)])

\* faulty variant: the first segment whose upper end reaches u (the search of
\* std::lower_bound), which on a boundary is the segment to the left
GetOffset_LowerBound(d, u) ==
    LET S == {i \in 0..(d.n - 1) : FLe(u, d.cdf[i + 1])}
    IN  IF S = {} THEN d.n - 1 ELSE CHOOSE i \in S : \A j \in S : i <= j

GetOffset(d, u) == FindInterval(d.n + 1, [index \in 0..d.n |-> FLe(d.cdf[index], u)])

\* faulty variant: the pdf is not guarded against a zero integral
PC1D_Sample_UnguardedPdf(d, u) ==
    LET offset == GetOffset(d, u)
        du0 == FSub(u, d.cdf[offset])
        w == FSub(d.cdf[offset + 1], d.cdf[offset])
        du == IF FLt(Zero, w) THEN FDiv(du0, w) ELSE du0
    IN  [x |-> Lerp(FDiv(FAdd(FromInt(offset), du), FromInt(d.n)), d.min, d.max),
         pdf |-> FDiv(d.func[offset], d.funcInt), off |-> offset]

PC1D_Sample(d, u) ==
    LET offset == GetOffset(d, u)
        du0 == FSub(u, d.cdf[offset])
        w == FSub(d.cdf[offset + 1], d.cdf[offset])
        du == IF FLt(Zero, w) THEN FDiv(du0, w) ELSE du0
        pdf == IF FLt(Zero, d.funcInt) THEN FDiv(d.func[offset], d.funcInt) ELSE Zero
    IN  [x |-> Lerp(FDiv(FAdd(FromInt(offset), du), FromInt(d.n)), d.min, d.max),
         pdf |-> pdf, off |-> offset]

\* faulty variant: the ends of the CDF segment are swapped in the interpolation
PC1D_Invert_SwappedLerp(d, v) ==
    IF FLt(v, d.min) \/ FLt(d.max, v) THEN [has |-> FALSE, val |-> Zero]
    ELSE LET c == FMul(FDiv(FSub(v, d.min), FSub(d.max, d.min)), FromInt(d.n))
             offset == Clamp(FInt(c), 0, d.n - 1)
             delta == FSub(c, FromInt(offset))
         IN  [has |-> TRUE, val |-> Lerp(delta, d.cdf[offset + 1], d.cdf[offset])]

PC1D_Invert(d, v) ==
    IF FLt(v, d.min) \/ FLt(d.max, v) THEN [has |-> FALSE, val |-> Zero]
    ELSE LET c == FMul(FDiv(FSub(v, d.min), FSub(d.max, d.min)), FromInt(d.n))
             offset == Clamp(FInt(c), 0, d.n - 1)
             delta == FSub(c, FromInt(offset))
         IN  [has |-> TRUE, val |-> Lerp(delta, d.cdf[offset], d.cdf[offset + 1])]

\* --- the 1D state machine ---
InitPC1D ==
    /\ \E n \in 1..MaxN : \E f \in Arrays(n, FuncValues) : \E dom \in Domains :
          /\ FLt(dom[1], dom[2])                         \* CHECK_GT(max, min)
          /\ \A i \in 0..(n - 1) : FLe(Zero, f[i])       \* CHECK_GE(func[i - 1], 0)
          /\ dist1 = PiecewiseConstant1D(f, n, dom[1], dom[2])
    /\ dist2 = None /\ weights = None /\ sat = None /\ values = None
    /\ ret = None /\ prev = None
    /\ spectrum = None /\ lambda = None /\ material = None
    /\ estimators = None /\ reservoirs = None /\ sampler = None

Sample1D ==
    \E u \in USet :
        /\ ret' = [op |-> "Sample", u |-> u] @@ PC1D_Sample(dist1, u)
        /\ prev' = None
        /\ UNCHANGED objs

\* points handed to Invert: the point the last Sample returned, the ends of
\* the domain and points outside it
Points1D == (IF ret.op = "Sample" THEN {ret.x} ELSE {}) \cup
            {dist1.min, dist1.max, FSub(dist1.min, One), FAdd(dist1.max, One)}

Invert1D ==
    \E v \in Points1D :
        /\ ret' = [op |-> "Invert", v |-> v] @@ PC1D_Invert(dist1, v)
        /\ prev' = IF ret.op = "Sample" THEN ret ELSE None
        /\ UNCHANGED objs

NextPC1D == Sample1D \/ Invert1D

SpecPC1D == InitPC1D /\ [][NextPC1D]_vars

(* ---------------------------------------------------------------------- *)
(* PiecewiseConstant2D                                                    *)
(* ---------------------------------------------------------------------- *)
\* grid shapes <<nx, ny>> of at most MaxCells cells
Shapes == {sh \in (1..MaxCells) \X (1..MaxCells) : sh[1] * sh[2] <= MaxCells}

GridValues == {Zero, One, FromInt(2)}

\* data(x, y) is grid[y][x]: row y is the span data[y * nx .. y * nx + nx - 1]
Grids(nx, ny) == [0..(ny - 1) -> Arrays(nx, GridValues)]

\* Bounds2f domain: <<pMin, pMax>>
Domains2 == {<<<<FromInt(-1), Zero>>, <<FromInt(3), FromInt(2)>>>>}

U2Set == {Zero, F(1, 4), F(1, 2), F(2, 3)}

\* Clamp(val, low, high) with a Float val and int bounds: a Float
FClamp(val, low, high) ==
    IF FLt(val, FromInt(low)) THEN FromInt(low)
    ELSE IF FLt(FromInt(high), val) THEN FromInt(high) ELSE val

\* Bounds2f::Offset
Offset(domain, p) ==
    <<FDiv(FSub(p[1], domain[1][1]), FSub(domain[2][1], domain[1][1])),
      FDiv(FSub(p[2], domain[1][2]), FSub(domain[2][2], domain[1][2]))>>

\* one conditional distribution per row over the domain's x range, and the
\* marginal over the rows' integrals over the domain's y range
PiecewiseConstant2D(data, nx, ny, domain) ==
    LET cond == [y \in 0..(ny - 1) |->
                    PiecewiseConstant1D(data[y], nx, domain[1][1], domain[2][1])]
        marginalFunc == [y \in 0..(ny - 1) |-> cond[y].funcInt]
    IN  [pConditionalY |-> cond,
         pMarginal |-> PiecewiseConstant1D(marginalFunc, ny, domain[1][2], domain[2][2]),
         domain |-> domain, nx |-> nx, ny |-> ny]

\* faulty variant: the conditional distribution of the wrong row is sampled
PC2D_Sample_RowZero(d, u) ==
    LET m == PC1D_Sample(d.pMarginal, u[2])
        c == PC1D_Sample(d.pConditionalY[0], u[1])
    IN  [p |-> <<c.x, m.x>>, pdf |-> FMul(c.pdf, m.pdf), y |-> m.off]

PC2D_Sample(d, u) ==
    LET m == PC1D_Sample(d.pMarginal, u[2])
        c == PC1D_Sample(d.pConditionalY[m.off], u[1])
    IN  [p |-> <<c.x, m.x>>, pdf |-> FMul(c.pdf, m.pdf), y |-> m.off]

PC2D_PDF(d, pr) ==
    LET p == Offset(d.domain, pr)
        ix == Clamp(FInt(FMul(p[1], FromInt(d.nx))), 0, d.nx - 1)
        iy == Clamp(FInt(FMul(p[2], FromInt(d.ny))), 0, d.ny - 1)
    IN  FDiv(d.pConditionalY[iy].func[ix], d.pMarginal.funcInt)

NoPoint == [has |-> FALSE, val |-> <<Zero, Zero>>, row |-> -1]

PC2D_Invert(d, p) ==
    LET mInv == PC1D_Invert(d.pMarginal, p[2])
        p1o == FDiv(FSub(p[2], d.domain[1][2]), FSub(d.domain[2][2], d.domain[1][2]))
        offset == FInt(FClamp(FMul(p1o, FromInt(d.ny)), 0, d.ny - 1))
        cInv == PC1D_Invert(d.pConditionalY[offset], p[1])
    IN  IF ~mInv.has THEN NoPoint
        ELSE IF FLt(p1o, Zero) \/ FLt(One, p1o) THEN NoPoint
        ELSE IF ~cInv.has THEN [NoPoint EXCEPT !.row = offset]
        ELSE [has |-> TRUE, val |-> <<cInv.val, mInv.val>>, row |-> offset]

\* --- the 2D state machine ---
InitPC2D ==
    /\ \E sh \in Shapes : \E data \in Grids(sh[1], sh[2]) : \E dom \in Domains2 :
          dist2 = PiecewiseConstant2D(data, sh[1], sh[2], dom)
    /\ dist1 = None /\ weights = None /\ sat = None /\ values = None
    /\ ret = None /\ prev = None
    /\ spectrum = None /\ lambda = None /\ material = None
    /\ estimators = None /\ reservoirs = None /\ sampler = None

Sample2D ==
    \E u \in U2Set \X U2Set :
        /\ ret' = [op |-> "Sample", u |-> u] @@ PC2D_Sample(dist2, u)
        /\ prev' = None
        /\ UNCHANGED objs

\* points handed to PDF and Invert: the point the last Sample returned, the
\* corners of the domain and a point outside it
Points2D == (IF ret.op = "Sample" THEN {ret.p} ELSE {}) \cup
            {dist2.domain[1], dist2.domain[2],
             <<dist2.domain[1][1], FAdd(dist2.domain[2][2], One)>>}

PDF2D ==
    \E p \in Points2D :
        /\ ret' = [op |-> "PDF", p |-> p, val |-> PC2D_PDF(dist2, p)]
        /\ prev' = IF ret.op = "Sample" THEN ret ELSE None
        /\ UNCHANGED objs

Invert2D ==
    \E p \in Points2D :
        /\ ret' = [op |-> "Invert", p |-> p] @@ PC2D_Invert(dist2, p)
        /\ prev' = IF ret.op = "Sample" THEN ret ELSE None
        /\ UNCHANGED objs

NextPC2D == Sample2D \/ PDF2D \/ Invert2D

SpecPC2D == InitPC2D /\ [][NextPC2D]_vars

(* ---------------------------------------------------------------------- *)
(* SampleDiscrete                                                         *)
(* ---------------------------------------------------------------------- *)
OneMinusEpsilon == F(16777215, 16777216)

\* std::min(a, b): (b < a) ? b : a
FMin(a, b) == IF FLt(b, a) THEN b ELSE a

RECURSIVE SumWeights(_, _)
SumWeights(w, n) == IF n = 0 THEN Zero ELSE FAdd(SumWeights(w, n - 1), w[n - 1])

\* what weights[offset] evaluates to: beyond the span the read is out of
\* bounds and yields whatever lies behind the array (past)
ReadWeight(w, n, offset, past) == IF offset \in 0..(n - 1) THEN w[offset] ELSE past

\* the scan loop; its condition reads weights[offset] before it tests
\* offset < weights.size().  reads counts the evaluations of weights[offset],
\* oob tells whether one of them was at an index >= n
RECURSIVE ScanWeights(_, _, _, _, _, _)
ScanWeights(w, n, uScaled, offset, reads, past) ==
    LET cur == ReadWeight(w, n, offset, past)
    IN  IF (cur = Zero \/ FLe(cur, uScaled)) /\ offset < n
        THEN ScanWeights(w, n, FSub(uScaled, w[offset]), offset + 1, reads + 1, past)
        ELSE [offset |-> offset, uScaled |-> uScaled, reads |-> reads + 1,
              oob |-> offset >= n]

\* faulty variant: the empty span is not handled before the scan
SampleDiscrete_NoEmptyCheck(w, n, u, past) ==
    LET sum == SumWeights(w, n)
        scan == ScanWeights(w, n, FMul(u, sum), 0, 0, past)
        offset == IF scan.offset = n THEN n - 1 ELSE scan.offset
        wo == ReadWeight(w, n, offset, past)
    IN  [index |-> offset, pdf |-> FDiv(wo, sum),
         uRemapped |-> FMin(FDiv(scan.uScaled, wo), OneMinusEpsilon),
         reads |-> scan.reads, oob |-> scan.oob \/ offset < 0]

SampleDiscrete(w, n, u, past) ==
    IF n = 0
    THEN [index |-> -1, pdf |-> Zero, uRemapped |-> NaN, reads |-> 0, oob |-> FALSE]
    ELSE LET sum == SumWeights(w, n)
             scan == ScanWeights(w, n, FMul(u, sum), 0, 0, past)
             offset == IF scan.offset = n THEN n - 1 ELSE scan.offset
         IN  [index |-> offset, pdf |-> FDiv(w[offset], sum),
              uRemapped |-> FMin(FDiv(scan.uScaled, w[offset]), OneMinusEpsilon),
              reads |-> scan.reads, oob |-> scan.oob]

\* --- the SampleDiscrete state machine ---
InitDiscrete ==
    /\ \E n \in 0..MaxN : \E w \in Arrays(n, FuncValues) : weights = [n |-> n, w |-> w]
    /\ dist1 = None /\ dist2 = None /\ sat = None /\ values = None
    /\ ret = None /\ prev = None
    /\ spectrum = None /\ lambda = None /\ material = None
    /\ estimators = None /\ reservoirs = None /\ sampler = None

\* values an out-of-bounds read of weights[n] may yield
PastTheEnd == {Zero, One, NaN}

\* a call that returns; an out-of-bounds read yields some value
SampleDiscreteReturn ==
    \E u \in USet : \E past \in PastTheEnd :
        /\ ret' = [op |-> "SampleDiscrete", u |-> u, returned |-> TRUE]
                  @@ SampleDiscrete(weights.w, weights.n, u, past)
        /\ prev' = None
        /\ UNCHANGED objs

\* a call whose out-of-bounds read of weights[n] stops the program (a
\* checked operator[] or a fault): nothing is returned
SampleDiscreteFault ==
    \E u \in USet : \E past \in PastTheEnd :
        /\ SampleDiscrete(weights.w, weights.n, u, past).oob
        /\ ret' = [op |-> "SampleDiscrete", u |-> u, returned |-> FALSE,
                   index |-> -1, pdf |-> NaN, uRemapped |-> NaN,
                   reads |-> SampleDiscrete(weights.w, weights.n, u, past).reads,
                   oob |-> TRUE]
        /\ prev' = None
        /\ UNCHANGED objs

NextDiscrete == SampleDiscreteReturn \/ SampleDiscreteFault

SpecDiscrete == InitDiscrete /\ [][NextDiscrete]_vars

(* ---------------------------------------------------------------------- *)
(* SummedAreaTable                                                        *)
(* ---------------------------------------------------------------------- *)
SatValues == {FromInt(-1), Zero, FromInt(2)}

\* Array2D: a(x, y) is a[y][x]
Array2Ds(nx, ny, V) == [0..(ny - 1) -> Arrays(nx, V)]

\* std::max<Float>(a, b): (a < b) ? b : a
FMax(a, b) == IF FLt(a, b) THEN b ELSE a

IMin(a, b) == IF b < a THEN b ELSE a

\* the function the constructor integrates: values(x, y) / n
Averaged(v, n, x, y) == FDiv(v[y][x], FromInt(n))

\* faulty variant: the doubly counted block result(x - 1, y - 1) is not subtracted
RECURSIVE integrate_NoSubtract(_, _, _, _)
integrate_NoSubtract(v, n, x, y) ==
    IF x = 0 /\ y = 0 THEN Averaged(v, n, 0, 0)
    ELSE IF y = 0 THEN FAdd(Averaged(v, n, x, 0), integrate_NoSubtract(v, n, x - 1, 0))
    ELSE IF x = 0 THEN FAdd(Averaged(v, n, 0, y), integrate_NoSubtract(v, n, 0, y - 1))
    ELSE FAdd(FAdd(Averaged(v, n, x, y), integrate_NoSubtract(v, n, x - 1, y)),
              integrate_NoSubtract(v, n, x, y - 1))

\* result(x, y) of integrate
RECURSIVE integrate(_, _, _, _)
integrate(v, n, x, y) ==
    IF x = 0 /\ y = 0 THEN Averaged(v, n, 0, 0)
    ELSE IF y = 0 THEN FAdd(Averaged(v, n, x, 0), integrate(v, n, x - 1, 0))
    ELSE IF x = 0 THEN FAdd(Averaged(v, n, 0, y), integrate(v, n, 0, y - 1))
    ELSE FSub(FAdd(FAdd(Averaged(v, n, x, y), integrate(v, n, x - 1, y)),
                   integrate(v, n, x, y - 1)),
              integrate(v, n, x - 1, y - 1))

SummedAreaTable(v, nx, ny) ==
    [sum |-> [y \in 0..(ny - 1) |-> [x \in 0..(nx - 1) |-> integrate(v, nx * ny, x, y)]],
     xSize |-> nx, ySize |-> ny]

\* faulty variant: no virtual zeros at the lower boundaries
lookupInt_NoZeroBorder(s, x, y) ==
    s.sum[IMin(IF y = 0 THEN 0 ELSE y - 1, s.ySize - 1)][IMin(IF x = 0 THEN 0 ELSE x - 1, s.xSize - 1)]

\* lookup(s, int x, int y)
lookupInt(s, x, y) ==
    IF x = 0 \/ y = 0 THEN Zero
    ELSE s.sum[IMin(y - 1, s.ySize - 1)][IMin(x - 1, s.xSize - 1)]

\* lookup(s, Float x, Float y)
lookup(s, x, y) ==
    LET xs == FMul(x, FromInt(s.xSize))
        ys == FMul(y, FromInt(s.ySize))
        x0 == FInt(xs)
        y0 == FInt(ys)
        v00 == lookupInt(s, x0, y0)
        v10 == lookupInt(s, x0 + 1, y0)
        v01 == lookupInt(s, x0, y0 + 1)
        v11 == lookupInt(s, x0 + 1, y0 + 1)
        dx == FSub(xs, FromInt(FInt(xs)))
        dy == FSub(ys, FromInt(FInt(ys)))
    IN  FAdd(FAdd(FAdd(FMul(FMul(FSub(One, dx), FSub(One, dy)), v00),
                       FMul(FMul(FSub(One, dx), dy), v01)),
                  FMul(FMul(dx, FSub(One, dy)), v10)),
             FMul(FMul(dx, dy), v11))

\* the four corner lookups of Sum, in the order the code subtracts them
Corners(s, extent) ==
    [maxmax |-> lookup(s, extent[2][1], extent[2][2]),
     minmax |-> lookup(s, extent[1][1], extent[2][2]),
     minmin |-> lookup(s, extent[1][1], extent[1][2]),
     maxmin |-> lookup(s, extent[2][1], extent[1][2])]

\* faulty variant: the lower corners are taken with the opposite signs
SAT_Sum_SwappedCorners(s, extent) ==
    LET c == Corners(s, extent)
    IN  FMax(FAdd(FSub(c.maxmax, c.minmax), FSub(c.maxmin, c.minmin)), Zero)

SAT_Sum(s, extent) ==
    LET c == Corners(s, extent)
    IN  FMax(FAdd(FSub(c.maxmax, c.minmax), FSub(c.minmin, c.maxmin)), Zero)

\* --- the SummedAreaTable state machine ---
InitSAT ==
    /\ \E sh \in Shapes : \E v \in Array2Ds(sh[1], sh[2], SatValues) :
          /\ values = [v |-> v, nx |-> sh[1], ny |-> sh[2]]
          /\ sat = SummedAreaTable(v, sh[1], sh[2])
    /\ dist1 = None /\ dist2 = None /\ weights = None
    /\ ret = None /\ prev = None
    /\ spectrum = None /\ lambda = None /\ material = None
    /\ estimators = None /\ reservoirs = None /\ sampler = None

\* coordinates in [0,1] on the cell boundaries k/n
Boundaries(n) == {F(k, n) : k \in 0..n}

\* rectangles with corners on cell boundaries
AlignedExtents ==
    {e \in (Boundaries(sat.xSize) \X Boundaries(sat.ySize)) \X
           (Boundaries(sat.xSize) \X Boundaries(sat.ySize)) :
        FLe(e[1][1], e[2][1]) /\ FLe(e[1][2], e[2][2])}

\* rectangles from the origin to a point inside a cell
InnerExtents ==
    {<<<<Zero, Zero>>, <<F(2 * i + 1, 2 * sat.xSize), F(2 * j + 1, 2 * sat.ySize)>>>> :
        i \in 0..(sat.xSize - 1), j \in 0..(sat.ySize - 1)}

\* a caller with no call in progress calls Sum(extent)
Sum ==
    /\ ret = None
    /\ \E extent \in AlignedExtents \cup InnerExtents :
          ret' = [op |-> "Sum", extent |-> extent, val |-> SAT_Sum(sat, extent),
                  corners |-> Corners(sat, extent)]
    /\ prev' = None
    /\ UNCHANGED objs

\* the caller has consumed the result
SumReturn ==
    /\ ret # None
    /\ ret' = None
    /\ prev' = None
    /\ UNCHANGED objs

NextSAT == Sum \/ SumReturn

SpecSAT == InitSAT /\ [][NextSAT]_vars

(* ---------------------------------------------------------------------- *)
(* SATPiecewiseConstant2D (members sat and func), in exact arithmetic     *)
(* ---------------------------------------------------------------------- *)
\* std::floor and std::ceil of a Float; NaN stays NaN
FFloor(a) ==
    IF ~IsFinite(a) THEN a
    ELSE FromInt(IF a[1] >= 0 THEN a[1] \div a[2] ELSE -((-a[1] + a[2] - 1) \div a[2]))

FCeil(a) == FNeg(FFloor(FNeg(a)))

\* Clamp(val, low, high) on Floats
FClampF(val, low, high) == IF FLt(val, low) THEN low ELSE IF FLt(high, val) THEN high ELSE val

\* the lambdas Px and Py: the sum over bounds with pMax.x (axis 1) or
\* pMax.y (axis 2) replaced by t, divided by denom
Marginal(s, fn, t) ==
    LET bt == [fn.b EXCEPT ![2][fn.axis] = t]
    IN  FDiv(SAT_Sum(s, bt), fn.denom)

\* the loop of sample: the bracket after the loop ends, or none when the
\* loop is still running after fuel iterations
RECURSIVE Bisect(_, _, _, _, _, _, _)
Bisect(s, fn, u, min, max, n, fuel) ==
    IF ~FLt(One, FSub(FCeil(FMul(FromInt(n), max)), FFloor(FMul(FromInt(n), min))))
    THEN [done |-> TRUE, min |-> min, max |-> max]
    ELSE IF fuel = 0 THEN [done |-> FALSE, min |-> min, max |-> max]
    ELSE LET mid == FDiv(FAdd(min, max), FromInt(2))
         IN  IF FLt(u, Marginal(s, fn, mid))
             THEN Bisect(s, fn, u, min, mid, n, fuel - 1)
             ELSE Bisect(s, fn, u, mid, max, n, fuel - 1)

\* sample, after the loop: the interpolation between the bracket's ends
sampleLerp(u, br, fmin, fmax) ==
    [done |-> br.done,
     x |-> FClampF(Lerp(FDiv(FSub(u, fmin), FSub(fmax, fmin)), br.min, br.max), br.min, br.max)]

sampleBracket(s, fn, u, br) ==
    sampleLerp(u, br, Marginal(s, fn, br.min), Marginal(s, fn, br.max))

\* sample(func, u, min, max, n)
sample(s, fn, u, min, max, n) ==
    sampleBracket(s, fn, u, Bisect(s, fn, u, min, max, n, MaxBisect))

\* Eval(p) for a finite point p
SATPC_Eval(f, p) ==
    f.v[IMin(FInt(FMul(p[2], FromInt(f.ny))), f.ny - 1)]
       [IMin(FInt(FMul(p[1], FromInt(f.nx))), f.nx - 1)]

SATPC_PDF(s, f, p, b) ==
    IF SAT_Sum(s, b) = Zero THEN Zero ELSE FDiv(SATPC_Eval(f, p), SAT_Sum(s, b))

\* the x-slab of the second stage
Slab(px, b, nx) ==
    LET lo == FDiv(FFloor(FMul(px, FromInt(nx))), FromInt(nx))
        hi == FDiv(FCeil(FMul(px, FromInt(nx))), FromInt(nx))
    IN  <<<<lo, b[1][2]>>, <<IF lo = hi THEN FAdd(hi, FDiv(One, FromInt(nx))) ELSE hi, b[2][2]>>>>

\* Sample(u, b, pdf), in the order of its statements.  The result's stage
\* tells how far the call got: "empty" and "slab" are the two early returns,
\* "sampled" the full return; "x running" and "y running" are calls whose
\* bisection has not ended after MaxBisect iterations; "x undefined" and
\* "y undefined" are calls that go on to convert a NaN coordinate to int.
\* denoms lists the denominators of the bisections that were run.
SATPC_NoSample == [stage |-> "", pdf |-> NaN, p |-> <<NaN, NaN>>, by |-> <<>>, denoms |-> <<>>]

\* p.y has been sampled: *pdf = PDF(p, b)
SATPC_SampleEnd(s, f, b, sumb, px, by, sumby, sy) ==
    IF ~sy.done
    THEN [SATPC_NoSample EXCEPT !.stage = "y running", !.by = by, !.denoms = <<sumb, sumby>>]
    ELSE IF ~IsFinite(sy.x)
    THEN [SATPC_NoSample EXCEPT !.stage = "y undefined", !.by = by, !.denoms = <<sumb, sumby>>]
    ELSE [stage |-> "sampled", pdf |-> SATPC_PDF(s, f, <<px, sy.x>>, b),
          p |-> <<px, sy.x>>, by |-> by, denoms |-> <<sumb, sumby>>]

\* the slab by has been built: the test of its sum, then the second bisection
SATPC_SampleY(s, f, u, b, sumb, px, by, sumby) ==
    IF FLe(sumby, Zero)
    THEN [SATPC_NoSample EXCEPT !.stage = "slab", !.pdf = Zero, !.by = by, !.denoms = <<sumb>>]
    ELSE SATPC_SampleEnd(s, f, b, sumb, px, by, sumby,
                         sample(s, [axis |-> 2, b |-> by, denom |-> sumby], u[2],
                                b[1][2], b[2][2], f.ny))

SATPC_SampleSlab(s, f, u, b, sumb, px, by) ==
    SATPC_SampleY(s, f, u, b, sumb, px, by, SAT_Sum(s, by))

\* p.x has been sampled
SATPC_SampleX(s, f, u, b, sumb, sx) ==
    IF ~sx.done THEN [SATPC_NoSample EXCEPT !.stage = "x running", !.denoms = <<sumb>>]
    ELSE IF IsNaN(sx.x) THEN [SATPC_NoSample EXCEPT !.stage = "x undefined", !.denoms = <<sumb>>]
    ELSE SATPC_SampleSlab(s, f, u, b, sumb, sx.x, Slab(sx.x, b, f.nx))

\* faulty variant: the sum over b is not tested before it is used as a
\* denominator
SATPC_SampleB_NoEmptyTest(s, f, u, b, sumb) ==
    SATPC_SampleX(s, f, u, b, sumb,
                  sample(s, [axis |-> 1, b |-> b, denom |-> sumb], u[1], b[1][1], b[2][1], f.nx))

\* sat.Sum(b) has been computed: the test of the sum, then the first bisection
SATPC_SampleB(s, f, u, b, sumb) ==
    IF sumb = Zero THEN [SATPC_NoSample EXCEPT !.stage = "empty", !.pdf = Zero]
    ELSE SATPC_SampleX(s, f, u, b, sumb,
                       sample(s, [axis |-> 1, b |-> b, denom |-> sumb], u[1],
                              b[1][1], b[2][1], f.nx))

SATPC_Sample(s, f, u, b) == SATPC_SampleB(s, f, u, b, SAT_Sum(s, b))

\* --- the SATPiecewiseConstant2D state machine ---
InitSATPC ==
    /\ \E sh \in Shapes : \E v \in Array2Ds(sh[1], sh[2], SatValues) :
          /\ values = [v |-> v, nx |-> sh[1], ny |-> sh[2]]
          /\ sat = SummedAreaTable(v, sh[1], sh[2])
    /\ dist1 = None /\ dist2 = None /\ weights = None
    /\ ret = None /\ prev = None
    /\ spectrum = None /\ lambda = None /\ material = None
    /\ estimators = None /\ reservoirs = None /\ sampler = None

\* sub-rectangles b: aligned ones of positive area, and the domain without
\* its first half cell in x
SampleExtents ==
    {e \in AlignedExtents : FLt(e[1][1], e[2][1]) /\ FLt(e[1][2], e[2][2])} \cup
    {<<<<F(1, 2 * sat.xSize), Zero>>, <<One, One>>>>}

USamples == {<<Zero, F(1, 2)>>, <<F(1, 3), F(1, 3)>>, <<F(1, 2), Zero>>, <<F(2, 3), F(1, 2)>>}

SampleSATPC ==
    /\ ret = None
    /\ \E u \in USamples : \E b \in SampleExtents :
          ret' = [op |-> "Sample", u |-> u, b |-> b] @@ SATPC_Sample(sat, values, u, b)
    /\ prev' = None
    /\ UNCHANGED objs

PDFSATPC ==
    /\ ret.op = "Sample" /\ ret.stage = "sampled"
    /\ ret' = [op |-> "PDF", p |-> ret.p, b |-> ret.b,
               val |-> SATPC_PDF(sat, values, ret.p, ret.b)]
    /\ prev' = ret
    /\ UNCHANGED objs

ReturnSATPC ==
    /\ ret # None
    /\ ret' = None
    /\ prev' = None
    /\ UNCHANGED objs

NextSATPC == SampleSATPC \/ PDFSATPC \/ ReturnSATPC

SpecSATPC == InitSATPC /\ [][NextSATPC]_vars

(* ---------------------------------------------------------------------- *)
(* SATPiecewiseConstant2D::sample, the bisection helper, in binary32       *)
(*                                                                        *)
(* Here a Float in [0.5, 1] is the integer m of its value m * 2^-24       *)
(* (2^23 <= m <= 2^24), the values a 24-bit significand represents        *)
(* there; every operation rounds to nearest, ties to even.  func is the   *)
(* nondecreasing step function that exceeds u = 1/2 exactly right of the  *)
(* cell boundary k/n.                                                     *)
(* ---------------------------------------------------------------------- *)
F32Half == 2^23

F32One == 2^24

\* x rounded to a multiple of 2^s, ties to the even multiple
RoundBits(x, s) ==
    LET q == x \div (2^s)
        r == x % (2^s)
    IN  IF 2 * r > 2^s \/ (2 * r = 2^s /\ q % 2 = 1) THEN (q + 1) * 2^s ELSE q * 2^s

\* the number of low bits a value x >= 2^24 loses in a 24-bit significand
RECURSIVE ExcessBits(_)
ExcessBits(x) == IF x < 2^24 THEN 0 ELSE 1 + ExcessBits(x \div 2)

\* the Float nearest to x (x >= 2^23, in units of 2^-24)
F32Round(x) == RoundBits(x, ExcessBits(x))

\* (min + max) / 2: the sum is rounded, halving is exact
F32Mid(min, max) == F32Round(min + max) \div 2

\* n * x: the int is converted exactly and the product is rounded
F32MulInt(n, x) == F32Round(n * x)

F32Floor(x) == x \div F32One

F32Ceil(x) == (x + F32One - 1) \div F32One

\* the loop condition std::ceil(n * max) - std::floor(n * min) > 1
CellsSpanned(n, min, max) == F32Ceil(F32MulInt(n, max)) - F32Floor(F32MulInt(n, min))

\* func(x) > u for the step at the cell boundary k/n
FuncAbove(n, k, x) == n * x > k * F32One

\* one iteration of the loop body
BisectNarrow(f, mid) ==
    IF FuncAbove(f.n, f.k, mid) THEN [f EXCEPT !.max = mid, !.iter = f.iter + 1]
    ELSE [f EXCEPT !.min = mid, !.iter = f.iter + 1]

\* resolutions n and cell boundaries k/n in (1/2, 1)
Resolutions == 2..MaxRes

InitBisect ==
    /\ \E n \in Resolutions : \E k \in 1..(n - 1) :
          /\ 2 * k > n
          /\ ret = [op |-> "sample", pc |-> "loop", n |-> n, k |-> k,
                    min |-> F32Half, max |-> F32One, iter |-> 0, x |-> 0]
    /\ dist1 = None /\ dist2 = None /\ weights = None /\ sat = None /\ values = None
    /\ prev = None
    /\ spectrum = None /\ lambda = None /\ material = None
    /\ estimators = None /\ reservoirs = None /\ sampler = None

BisectStep ==
    /\ ret.op = "sample" /\ ret.pc = "loop"
    /\ CellsSpanned(ret.n, ret.min, ret.max) > 1
    /\ ret.iter < MaxIter
    /\ ret' = BisectNarrow(ret, F32Mid(ret.min, ret.max))
    /\ UNCHANGED <<objs, prev>>

\* t = (u - func(min)) / (func(max) - func(min)) = 1/2 for the step
\* function, and Clamp(Lerp(t, min, max), min, max) is the rounded midpoint
BisectExit ==
    /\ ret.op = "sample" /\ ret.pc = "loop"
    /\ ~(CellsSpanned(ret.n, ret.min, ret.max) > 1)
    /\ ret' = [ret EXCEPT !.pc = "done", !.x = F32Mid(ret.min, ret.max)]
    /\ UNCHANGED <<objs, prev>>

NextBisect == BisectStep \/ BisectExit

SpecBisect == InitBisect /\ [][NextBisect]_vars

(* ---------------------------------------------------------------------- *)
(* PiecewiseLinear2D<1>: one auxiliary parameter, in exact arithmetic     *)
(* ---------------------------------------------------------------------- *)
\* a < b for non-negative fractions a1/a2 and b1/b2, by comparing integer
\* parts and then the reciprocals of the remainders
RECURSIVE FracLess(_, _, _, _)
FracLess(a1, a2, b1, b2) ==
    IF a1 \div a2 # b1 \div b2 THEN a1 \div a2 < b1 \div b2
    ELSE IF b1 % b2 = 0 THEN FALSE
    ELSE IF a1 % a2 = 0 THEN TRUE
    ELSE FracLess(b2, b1 % b2, a2, a1 % a2)

\* Clamp(sample, 1 - OneMinusEpsilon, OneMinusEpsilon) of a finite sample
ClampSample(x) ==
    LET lo == FSub(One, OneMinusEpsilon)
    IN  IF x[1] <= 0 THEN lo
        ELSE IF FracLess(x[1], x[2], lo[1], lo[2]) THEN lo
        ELSE IF FracLess(OneMinusEpsilon[1], OneMinusEpsilon[2], x[1], x[2]) THEN OneMinusEpsilon
        ELSE x

FAbs(a) == <<Abs(a[1]), a[2]>>

\* the largest k in lo..hi with k * k <= n
RECURSIVE ISqrt(_, _, _)
ISqrt(n, lo, hi) ==
    IF lo >= hi THEN lo
    ELSE LET mid == (lo + hi + 1) \div 2
         IN  IF mid * mid <= n THEN ISqrt(n, mid, hi) ELSE ISqrt(n, lo, mid - 1)

IRoot(n) == ISqrt(n, 0, IMin(n, 46340))

\* the Floats whose square root is a fraction
IsSquare(a) == a[1] >= 0 /\ IRoot(a[1]) * IRoot(a[1]) = a[1] /\ IRoot(a[2]) * IRoot(a[2]) = a[2]

\* SafeSqrt(x) = sqrt(max(0, x)), for x a square or negative
SafeSqrt(a) == IF a[1] <= 0 THEN Zero ELSE <<IRoot(a[1]), IRoot(a[2])>>

\* conditional_cdf before normalization: the running trapezoid sum of row y
\* of the slice starting at base, up to column x
RECURSIVE PLCond(_, _, _, _, _)
PLCond(data, base, xSize, y, x) ==
    IF x = 0 THEN Zero
    ELSE FAdd(PLCond(data, base, xSize, y, x - 1),
              FMul(F(1, 2), FAdd(data[base + y * xSize + x - 1], data[base + y * xSize + x])))

\* marginal_cdf before normalization
RECURSIVE PLMarg(_, _, _, _)
PLMarg(data, base, xSize, y) ==
    IF y = 0 THEN Zero
    ELSE FAdd(PLMarg(data, base, xSize, y - 1),
              FMul(F(1, 2), FAdd(PLCond(data, base, xSize, y - 1, xSize - 1),
                                 PLCond(data, base, xSize, y, xSize - 1))))

\* the sum of the cell averages of a slice (build_cdf = false, normalize)
RECURSIVE PLCellSum(_, _, _, _)
PLCellSum(data, base, xSize, cell) ==
    IF cell = 0 THEN Zero
    ELSE LET y == (cell - 1) \div (xSize - 1)
             i == base + y * xSize + ((cell - 1) % (xSize - 1))
         IN  FAdd(PLCellSum(data, base, xSize, cell - 1),
                  FMul(F(1, 4), FAdd(FAdd(data[i], data[i + 1]),
                                     FAdd(data[i + xSize], data[i + 1 + xSize]))))

\* float normalization, per slice
PLNormalization(data, base, xSize, ySize, normalize, build_cdf) ==
    IF build_cdf THEN FDiv(One, PLMarg(data, base, xSize, ySize - 1))
    ELSE IF normalize THEN FDiv(One, PLCellSum(data, base, xSize, (xSize - 1) * (ySize - 1)))
    ELSE FDiv(One, FromInt((xSize - 1) * (ySize - 1)))

\* the constructor; fatal stands for the process ended by LOG_FATAL
PiecewiseLinear2D(data, xSize, ySize, param_res, param_values, normalize, build_cdf) ==
    LET n == xSize * ySize
        norm(slice) == PLNormalization(data, slice * n, xSize, ySize, normalize, build_cdf)
        cdfs == IF build_cdf THEN param_res ELSE 0
    IN  IF build_cdf /\ ~normalize
        THEN [fatal |-> TRUE, normalize |-> normalize, build_cdf |-> build_cdf, data |-> data]
        ELSE [fatal |-> FALSE, normalize |-> normalize, build_cdf |-> build_cdf, data |-> data,
              m_size |-> <<xSize, ySize>>,
              m_param_size |-> param_res,
              m_param_strides |-> IF param_res > 1 THEN 1 ELSE 0,
              m_param_values |-> param_values,
              m_data |-> [i \in 0..(param_res * n - 1) |-> FMul(data[i], norm(i \div n))],
              m_marginal_cdf |->
                  [i \in 0..(cdfs * ySize - 1) |->
                      FMul(PLMarg(data, (i \div ySize) * n, xSize, i % ySize), norm(i \div ySize))],
              m_conditional_cdf |->
                  [i \in 0..(cdfs * n - 1) |->
                      FMul(PLCond(data, (i \div n) * n, xSize, (i % n) \div xSize, ((i % n) % xSize)),
                           norm(i \div n))]]

\* param_weight and slice_offset for the one parameter
PLWeights(d, param) ==
    IF d.m_param_size = 1 THEN [w0 |-> One, w1 |-> Zero, slice_offset |-> 0]
    ELSE LET param_index == FindInterval(d.m_param_size,
                                [idx \in 0..(d.m_param_size - 1) |-> FLe(d.m_param_values[idx + 1], param)])
             p0 == d.m_param_values[param_index + 1]
             p1 == d.m_param_values[param_index + 2]
             w1 == FClampF(FDiv(FSub(param, p0), FSub(p1, p0)), Zero, One)
         IN  [w0 |-> FSub(One, w1), w1 |-> w1, slice_offset |-> d.m_param_strides * param_index]

\* lookup<1>(data, i0, size, param_weight)
PLLookup(d, arr, i0, size, pw) ==
    FAdd(FMul(arr[i0], pw.w0), FMul(arr[i0 + d.m_param_strides * size], pw.w1))

\* the inversion of one trapezoid: the quadratic, or the linear fallback when
\* the two rates are nearly equal
PLIsConst(a0, a1) == FLt(FAbs(FSub(a0, a1)), FMul(F(1, 10000), FAdd(a0, a1)))

PLRadicand(a0, a1, s) == FSub(FMul(a0, a0), FMul(FMul(FromInt(2), s), FSub(a0, a1)))

PLSolve(a0, a1, s) ==
    IF PLIsConst(a0, a1) THEN FDiv(FMul(FromInt(2), s), FAdd(a0, a1))
    ELSE FDiv(FSub(a0, SafeSqrt(PLRadicand(a0, a1, s))), FSub(a0, a1))

PLSolvable(a0, a1, s) ==
    PLIsConst(a0, a1) \/ PLRadicand(a0, a1, s)[1] <= 0 \/ IsSquare(PLRadicand(a0, a1, s))
\* fetch_marginal(idx)
PLMarginal(d, pw, idx) ==
    PLLookup(d, d.m_marginal_cdf, pw.slice_offset * d.m_size[2] + idx, d.m_size[2], pw)

\* a lookup in m_conditional_cdf and in m_data
PLCondAt(d, pw, i) == PLLookup(d, d.m_conditional_cdf, i, d.m_size[1] * d.m_size[2], pw)

PLDataAt(d, pw, i) == PLLookup(d, d.m_data, i, d.m_size[1] * d.m_size[2], pw)

\* offset of the row (Sample) or of the patch (Invert, Evaluate)
PLOffset(d, pw, col, row) == col + row * d.m_size[1] + pw.slice_offset * d.m_size[1] * d.m_size[2]

\* fetch_conditional(idx)
PLConditional(d, pw, row, sy, idx) ==
    FAdd(FMul(FSub(One, sy), PLCondAt(d, pw, PLOffset(d, pw, idx, row))),
         FMul(sy, PLCondAt(d, pw, PLOffset(d, pw, idx, row) + d.m_size[1])))

\* HProd(m_inv_patch_size)
PLInvPatch(d) == FromInt((d.m_size[1] - 1) * (d.m_size[2] - 1))

\* c0 and c1: the data interpolated along y at the patch's two sides
PLEdge(d, pw, offset, w1y) ==
    FAdd(FMul(FSub(One, w1y), PLDataAt(d, pw, offset)),
         FMul(w1y, PLDataAt(d, pw, offset + d.m_size[1])))

\* faulty variant: the density returned is the one at the patch's left edge
PLSampleReturn_EdgePdf(d, row, col, sy, exact, c0, c1, sx) ==
    [p |-> <<FMul(FAdd(FromInt(col), sx), F(1, d.m_size[1] - 1)),
             FMul(FAdd(FromInt(row), sy), F(1, d.m_size[2] - 1))>>,
     pdf |-> FMul(c0, PLInvPatch(d)),
     exact |-> exact]

\* Sample, in the order of its statements.  The return statement; exact tells
\* that both square roots taken were fractions
PLSampleReturn(d, row, col, sy, exact, c0, c1, sx) ==
    [p |-> <<FMul(FAdd(FromInt(col), sx), F(1, d.m_size[1] - 1)),
             FMul(FAdd(FromInt(row), sy), F(1, d.m_size[2] - 1))>>,
     pdf |-> FMul(FAdd(FMul(FSub(One, sx), c0), FMul(sx, c1)), PLInvPatch(d)),
     exact |-> exact]

\* the column's inversion
PLSamplePatch(d, row, col, sy, exactY, sx2, c0, c1) ==
    PLSampleReturn(d, row, col, sy, exactY /\ PLSolvable(c0, c1, sx2), c0, c1,
                   PLSolve(c0, c1, sx2))

\* col has been found
PLSampleCol(d, pw, row, sy, exactY, sx1, col) ==
    PLSamplePatch(d, row, col, sy, exactY, FSub(sx1, PLConditional(d, pw, row, sy, col)),
                  PLEdge(d, pw, PLOffset(d, pw, col, row), sy),
                  PLEdge(d, pw, PLOffset(d, pw, col, row) + 1, sy))

\* sample.x has been scaled: the search for the column
PLSampleX(d, pw, row, sy, exactY, sx1) ==
    PLSampleCol(d, pw, row, sy, exactY, sx1,
                FindInterval(d.m_size[1],
                    [idx \in 0..(d.m_size[1] - 1) |-> FLt(PLConditional(d, pw, row, sy, idx), sx1)]))

\* the row's inversion has given sample.y
PLSampleY(d, s, pw, row, r0, r1, exactY, sy) ==
    PLSampleX(d, pw, row, sy, exactY, FMul(s[1], FAdd(FMul(FSub(One, sy), r0), FMul(sy, r1))))

\* row has been found and sample.y reduced by its CDF value
PLSampleRow(d, s, pw, row, r0, r1, sy1) ==
    PLSampleY(d, s, pw, row, r0, r1, PLSolvable(r0, r1, sy1), PLSolve(r0, r1, sy1))

PLSampleMarginal(d, s, pw, row) ==
    PLSampleRow(d, s, pw, row,
                PLCondAt(d, pw, PLOffset(d, pw, d.m_size[1] - 1, row)),
                PLCondAt(d, pw, PLOffset(d, pw, 2 * d.m_size[1] - 1, row)),
                FSub(s[2], PLMarginal(d, pw, row)))

\* the sample has been clamped and the parameter weights looked up
PLSampleClamped(d, s, pw) ==
    PLSampleMarginal(d, s, pw,
                     FindInterval(d.m_size[2],
                         [idx \in 0..(d.m_size[2] - 1) |-> FLt(PLMarginal(d, pw, idx), s[2])]))

\* Sample(sample, param)
PL_Sample(d, u, param) ==
    PLSampleClamped(d, <<ClampSample(u[1]), ClampSample(u[2])>>, PLWeights(d, param))

\* Invert, in the order of its statements.  The return statement
PLInvertReturn(d, pw, posy, w1y, pdf, sx2, r0, r1) ==
    [p |-> <<FDiv(sx2, FAdd(FMul(FSub(One, w1y), r0), FMul(w1y, r1))),
             FAdd(FMul(w1y, FAdd(r0, FMul(FMul(F(1, 2), w1y), FSub(r1, r0)))),
                  PLLookup(d, d.m_marginal_cdf, posy + pw.slice_offset * d.m_size[2],
                           d.m_size[2], pw))>>,
     pdf |-> FMul(pdf, PLInvPatch(d))]

\* the x component has been inverted inside the patch
PLInvertX(d, pw, posx, posy, w1x, w1y, c0, c1) ==
    PLInvertReturn(d, pw, posy, w1y,
                   FAdd(FMul(FSub(One, w1x), c0), FMul(w1x, c1)),
                   FAdd(FMul(w1x, FAdd(c0, FMul(FMul(F(1, 2), w1x), FSub(c1, c0)))),
                        FAdd(FMul(FSub(One, w1y), PLCondAt(d, pw, PLOffset(d, pw, posx, posy))),
                             FMul(w1y, PLCondAt(d, pw, PLOffset(d, pw, posx, posy) + d.m_size[1])))),
                   PLCondAt(d, pw, PLOffset(d, pw, d.m_size[1] - 1, posy)),
                   PLCondAt(d, pw, PLOffset(d, pw, 2 * d.m_size[1] - 1, posy)))

\* the patch pos and the position w1 inside it
PLInvertPatch(d, pw, posx, posy, w1x, w1y) ==
    PLInvertX(d, pw, posx, posy, w1x, w1y,
              PLEdge(d, pw, PLOffset(d, pw, posx, posy), w1y),
              PLEdge(d, pw, PLOffset(d, pw, posx, posy) + 1, w1y))

\* sample *= m_inv_patch_size; pos = Min(Vector2i(sample), m_size - (2, 2))
PLInvertScaled(d, pw, px, py) ==
    PLInvertPatch(d, pw, IMin(FInt(px), d.m_size[1] - 2), IMin(FInt(py), d.m_size[2] - 2),
                  FSub(px, FromInt(IMin(FInt(px), d.m_size[1] - 2))),
                  FSub(py, FromInt(IMin(FInt(py), d.m_size[2] - 2))))

\* Invert(sample, param)
PL_Invert(d, p, param) ==
    PLInvertScaled(d, PLWeights(d, param), FMul(p[1], FromInt(d.m_size[1] - 1)),
                   FMul(p[2], FromInt(d.m_size[2] - 1)))

\* Evaluate, from the interpolation weights on
PLEvaluatePatch(d, pw, index, w1x, w1y) ==
    FMul(FAdd(FMul(FSub(One, w1y), FAdd(FMul(FSub(One, w1x), PLDataAt(d, pw, index)),
                                        FMul(w1x, PLDataAt(d, pw, index + 1)))),
              FMul(w1y, FAdd(FMul(FSub(One, w1x), PLDataAt(d, pw, index + d.m_size[1])),
                             FMul(w1x, PLDataAt(d, pw, index + d.m_size[1] + 1))))),
         PLInvPatch(d))

PLEvaluateScaled(d, pw, px, py) ==
    PLEvaluatePatch(d, pw,
                    PLOffset(d, pw, IMin(FInt(px), d.m_size[1] - 2), IMin(FInt(py), d.m_size[2] - 2)),
                    FSub(px, FromInt(IMin(FInt(px), d.m_size[1] - 2))),
                    FSub(py, FromInt(IMin(FInt(py), d.m_size[2] - 2))))

\* Evaluate(pos, param)
PL_Evaluate(d, pos, param) ==
    PLEvaluateScaled(d, PLWeights(d, param), FMul(pos[1], FromInt(d.m_size[1] - 1)),
                     FMul(pos[2], FromInt(d.m_size[2] - 1)))

\* --- the PiecewiseLinear2D state machine ---
PLShapes == {sh \in (2..MaxPLNodes) \X (2..MaxPLNodes) : sh[1] * sh[2] <= MaxPLNodes}

\* strictly positive data
PLValues == {One, FromInt(3)}

\* one slice of any shape, or two slices of the smallest shape
PLInputs ==
    {[xSize |-> sh[1], ySize |-> sh[2], param_res |-> 1, param_values |-> <<Zero>>, data |-> v] :
        sh \in PLShapes, v \in UNION {[0..(s[1] * s[2] - 1) -> PLValues] : s \in PLShapes}} \cup
    {[xSize |-> 2, ySize |-> 2, param_res |-> 2, param_values |-> <<Zero, One>>, data |-> v] :
        v \in [0..7 -> PLValues]}

InitPL ==
    /\ \E in \in PLInputs : \E normalize \in BOOLEAN : \E build_cdf \in BOOLEAN :
          /\ DOMAIN in.data = 0..(in.param_res * in.xSize * in.ySize - 1)
          /\ dist2 = PiecewiseLinear2D(in.data, in.xSize, in.ySize, in.param_res,
                                       in.param_values, normalize, build_cdf)
    /\ dist1 = None /\ weights = None /\ sat = None /\ values = None
    /\ ret = None /\ prev = None
    /\ spectrum = None /\ lambda = None /\ material = None
    /\ estimators = None /\ reservoirs = None /\ sampler = None

\* points k / PLDen of the unit square
PLPoints == {<<F(i, PLDen), F(j, PLDen)>> : i \in 0..PLDen, j \in 0..PLDen}

PLParams(d) == IF d.m_param_size = 1 THEN {Zero} ELSE {Zero, F(1, 2)}

\* the samples u that Sample maps to a point of PLPoints inside the square
PLSamples(d, param) ==
    {PL_Invert(d, <<F(i, PLDen), F(j, PLDen)>>, param).p : i \in 1..(PLDen - 1), j \in 1..(PLDen - 1)}

SamplePL ==
    /\ ret = None /\ ~dist2.fatal /\ dist2.build_cdf
    /\ \E param \in PLParams(dist2) : \E u \in PLSamples(dist2, param) :
          \E r \in {PL_Sample(dist2, u, param)} :
             /\ r.exact
             /\ ret' = [op |-> "Sample", u |-> u, param |-> param, p |-> r.p, pdf |-> r.pdf]
    /\ prev' = None
    /\ UNCHANGED objs

\* Sample on an object built without CDFs reads m_marginal_cdf, which is
\* empty: the call has no defined result
SamplePLNoCdf ==
    /\ ret = None /\ ~dist2.fatal /\ ~dist2.build_cdf
    /\ \E u \in {<<F(1, 2), F(1, 2)>>} :
          ret' = [op |-> "Sample", u |-> u, param |-> Zero, undefined |-> TRUE]
    /\ prev' = None
    /\ UNCHANGED objs

InvertPL ==
    /\ ret.op = "Sample" /\ ~dist2.fatal /\ dist2.build_cdf
    /\ \E r \in {PL_Invert(dist2, ret.p, ret.param)} :
          ret' = [op |-> "Invert", p |-> ret.p, param |-> ret.param, u |-> r.p, pdf |-> r.pdf]
    /\ prev' = ret
    /\ UNCHANGED objs

EvaluatePL ==
    /\ ret = None /\ ~dist2.fatal
    /\ \E param \in PLParams(dist2) : \E pos \in PLPoints :
          ret' = [op |-> "Evaluate", pos |-> pos, param |-> param,
                  val |-> PL_Evaluate(dist2, pos, param)]
    /\ prev' = None
    /\ UNCHANGED objs

ReturnPL ==
    /\ ret # None
    /\ ret' = None
    /\ prev' = None
    /\ UNCHANGED objs

NextPL == SamplePL \/ SamplePLNoCdf \/ InvertPL \/ EvaluatePL \/ ReturnPL

SpecPL == InitPL /\ [][NextPL]_vars

(* ---------------------------------------------------------------------- *)
(* SampleUniformTriangle and InvertUniformTriangleSample                   *)
(* ---------------------------------------------------------------------- *)
\* the barycentrics after the branch on offset
TriangleShift(b0, b1, offset) ==
    IF FLt(Zero, offset) THEN <<b0, FAdd(b1, offset)>> ELSE <<FSub(b0, offset), b1>>

TriangleResult(b) == <<b[1], b[2], FSub(FSub(One, b[1]), b[2])>>

SampleUniformTriangle(u) ==
    TriangleResult(TriangleShift(FDiv(u[1], FromInt(2)), FDiv(u[2], FromInt(2)),
                                 FSub(FDiv(u[2], FromInt(2)), FDiv(u[1], FromInt(2)))))

\* the branch SampleUniformTriangle takes: offset > 0
OffsetPositive(u) == FLt(Zero, FSub(FDiv(u[2], FromInt(2)), FDiv(u[1], FromInt(2))))

\* faulty variant: the inverse without its second branch
InvertUniformTriangleSample_OneBranch(b) == <<FAdd(b[1], b[2]), FMul(FromInt(2), b[2])>>

InvertUniformTriangleSample(b) ==
    IF FLt(b[2], b[1]) THEN <<FAdd(b[1], b[2]), FMul(FromInt(2), b[2])>>
    ELSE <<FMul(FromInt(2), b[1]), FAdd(b[2], b[1])>>

\* --- the state machine of the two functions ---
InitTriangle ==
    /\ dist1 = None /\ dist2 = None /\ weights = None /\ sat = None /\ values = None
    /\ ret = None /\ prev = None
    /\ spectrum = None /\ lambda = None /\ material = None
    /\ estimators = None /\ reservoirs = None /\ sampler = None

\* u in [0,1)^2 on the grid k / TriDen
TriangleSamples == {<<F(i, TriDen), F(j, TriDen)>> : i \in 0..(TriDen - 1), j \in 0..(TriDen - 1)}

SampleTriangle ==
    /\ ret = None
    /\ \E u \in TriangleSamples :
          ret' = [op |-> "SampleUniformTriangle", u |-> u, b |-> SampleUniformTriangle(u),
                  offsetPositive |-> OffsetPositive(u)]
    /\ prev' = None
    /\ UNCHANGED objs

InvertTriangle ==
    /\ ret.op = "SampleUniformTriangle"
    /\ ret' = [op |-> "InvertUniformTriangleSample", b |-> ret.b,
               u |-> InvertUniformTriangleSample(ret.b), b0Greater |-> FLt(ret.b[2], ret.b[1])]
    /\ prev' = ret
    /\ UNCHANGED objs

NextTriangle == SampleTriangle \/ InvertTriangle

SpecTriangle == InitTriangle /\ [][NextTriangle]_vars

(* ---------------------------------------------------------------------- *)
(* SampleSmoothStep and InvertSmoothStepSample                             *)
(* ---------------------------------------------------------------------- *)
\* Pow<3>(xp) * (2 - xp)
StepCdf(xp) == FMul(FMul(FMul(xp, xp), xp), FSub(FromInt(2), xp))

\* the lambda cdfMinusU of SampleSmoothStep (its first component)
cdfMinusU(x, u, start, end) ==
    FSub(StepCdf(FDiv(FSub(x, start), FSub(end, start))), u)

\* the points of [start, end] at the fractions k / StepDen of its length
StepPoints(start, end) ==
    {FAdd(start, FMul(F(k, StepDen), FSub(end, start))) : k \in 0..StepDen}

\* NewtonBisection(x0, x1, f): the root of f in [x0, x1], here one of the
\* points of StepPoints
NewtonBisection(x0, x1, u) ==
    CHOOSE x \in StepPoints(x0, x1) : cdfMinusU(x, u, x0, x1) = Zero

SampleSmoothStep(u, start, end) == NewtonBisection(start, end, u)

\* the lambda CDF of InvertSmoothStepSample: its argument is not used, the
\* value is computed from the captured xp
InvertCDF(x, xp) == StepCdf(xp)

InvertSmoothStepSample(x, start, end) ==
    FDiv(FSub(InvertCDF(x, FDiv(FSub(x, start), FSub(end, start))),
              InvertCDF(start, FDiv(FSub(x, start), FSub(end, start)))),
         FSub(InvertCDF(end, FDiv(FSub(x, start), FSub(end, start))),
              InvertCDF(start, FDiv(FSub(x, start), FSub(end, start)))))

\* --- the state machine of the two functions ---
InitSmoothStep ==
    /\ dist1 = None /\ dist2 = None /\ weights = None /\ sat = None /\ values = None
    /\ ret = None /\ prev = None
    /\ spectrum = None /\ lambda = None /\ material = None
    /\ estimators = None /\ reservoirs = None /\ sampler = None

\* start < end
StepRanges == {r \in (-1..MaxStep) \X (-1..MaxStep) : r[1] < r[2]}

\* the u in (0,1) whose sample is a point of StepPoints
StepSamples == {StepCdf(F(k, StepDen)) : k \in 1..(StepDen - 1)}

SampleStep ==
    /\ ret = None
    /\ \E r \in StepRanges : \E u \in StepSamples :
          ret' = [op |-> "SampleSmoothStep", u |-> u, start |-> FromInt(r[1]), end |-> FromInt(r[2]),
                  x |-> SampleSmoothStep(u, FromInt(r[1]), FromInt(r[2]))]
    /\ prev' = None
    /\ UNCHANGED objs

InvertStep ==
    /\ ret.op = "SampleSmoothStep"
    /\ ret' = [op |-> "InvertSmoothStepSample", x |-> ret.x, start |-> ret.start, end |-> ret.end,
               u |-> InvertSmoothStepSample(ret.x, ret.start, ret.end)]
    /\ prev' = ret
    /\ UNCHANGED objs

NextSmoothStep == SampleStep \/ InvertStep

SpecSmoothStep == InitSmoothStep /\ [][NextSmoothStep]_vars

(* ---------------------------------------------------------------------- *)
(* PiecewiseLinearSpectrum (members lambda and v, indexed from 0)         *)
(* ---------------------------------------------------------------------- *)
\* a std::vector built from a sequence
Vector(seq) == [i \in 0..(Len(seq) - 1) |-> seq[i + 1]]

Size(vec) == Cardinality(DOMAIN vec)

\* PiecewiseLinearSpectrum() = default: no samples
EmptySpectrum == [fatal |-> FALSE, lambda |-> Vector(<<>>), v |-> Vector(<<>>)]

\* the constructor from two spans; fatal stands for the process ended by a
\* failed CHECK, or by the loop over i < lambda.size() - 1 when lambda is
\* empty: the unsigned bound wraps and lambda[0] is read
PiecewiseLinearSpectrum(l, vals) ==
    IF Len(l) # Len(vals) \/ Len(l) = 0 \/ \E i \in 1..(Len(l) - 1) : ~FLt(l[i], l[i + 1])
    THEN [fatal |-> TRUE, lambda |-> Vector(l), v |-> Vector(vals)]
    ELSE [fatal |-> FALSE, lambda |-> Vector(l), v |-> Vector(vals)]

\* faulty variant: the interpolation runs from the right sample to the left
SpectrumLerp_Swapped(s, l, offset) ==
    Lerp(FDiv(FSub(l, s.lambda[offset]), FSub(s.lambda[offset + 1], s.lambda[offset])),
         s.v[offset + 1], s.v[offset])

\* operator(), from the interval found
SpectrumLerp(s, l, offset) ==
    Lerp(FDiv(FSub(l, s.lambda[offset]), FSub(s.lambda[offset + 1], s.lambda[offset])),
         s.v[offset], s.v[offset + 1])

\* operator()(Float l)
SpectrumEval(s, l) ==
    IF Size(s.lambda) = 0 THEN Zero
    ELSE IF FLe(l, s.lambda[0]) THEN s.v[0]
    ELSE IF FLe(s.lambda[Size(s.lambda) - 1], l) THEN s.v[Size(s.v) - 1]
    ELSE SpectrumLerp(s, l, FindInterval(Size(s.lambda),
                                [index \in 0..(Size(s.lambda) - 1) |-> FLe(s.lambda[index], l)]))

\* ReadFloatFile(fn): the values of a readable file, none for an unreadable one
ReadFloatFile(file) == IF file.readable THEN [has |-> TRUE, vals |-> file.vals] ELSE [has |-> FALSE]

\* the loop of Read over the pairs from i on: the sample lists, or the
\* rejection of a wavelength that is not above the previous one
RECURSIVE ReadPairs_AcceptEqual(_, _, _, _)
ReadPairs_AcceptEqual(vals, i, l, v) ==
    IF i = Len(vals) \div 2 THEN [ok |-> TRUE, lambda |-> l, v |-> v]
    ELSE IF i > 0 /\ FLt(vals[2 * i + 1], l[Len(l)]) THEN [ok |-> FALSE, lambda |-> l, v |-> v]
    ELSE ReadPairs_AcceptEqual(vals, i + 1, Append(l, vals[2 * i + 1]), Append(v, vals[2 * i + 2]))

RECURSIVE ReadPairs(_, _, _, _)
ReadPairs(vals, i, l, v) ==
    IF i = Len(vals) \div 2 THEN [ok |-> TRUE, lambda |-> l, v |-> v]
    ELSE IF i > 0 /\ FLe(vals[2 * i + 1], l[Len(l)]) THEN [ok |-> FALSE, lambda |-> l, v |-> v]
    ELSE ReadPairs(vals, i + 1, Append(l, vals[2 * i + 1]), Append(v, vals[2 * i + 2]))

NoSpectrum == [result |-> "none", allocated |-> FALSE, handle |-> None]

\* Read, after the pairs have been collected: the object is allocated and
\* constructed
ReadBuild(pairs) ==
    IF ~pairs.ok THEN NoSpectrum
    ELSE IF PiecewiseLinearSpectrum(pairs.lambda, pairs.v).fatal
    THEN [result |-> "fatal", allocated |-> TRUE, handle |-> None]
    ELSE [result |-> "spectrum", allocated |-> TRUE,
          handle |-> PiecewiseLinearSpectrum(pairs.lambda, pairs.v)]

\* Read(fn, alloc)
SpectrumRead(file) ==
    IF ~ReadFloatFile(file).has THEN NoSpectrum
    ELSE IF Len(ReadFloatFile(file).vals) % 2 # 0 THEN NoSpectrum
    ELSE ReadBuild(ReadPairs(ReadFloatFile(file).vals, 0, <<>>, <<>>))

\* --- the PiecewiseLinearSpectrum state machine ---
SpectrumValues == {FromInt(i) : i \in 0..MaxSamples}

RECURSIVE Seqs(_, _)
Seqs(S, n) == IF n = 0 THEN {<<>>} ELSE {Append(q, x) : q \in Seqs(S, n - 1), x \in S}

\* strictly increasing wavelengths
Increasing(l) == \A i \in 1..(Len(l) - 1) : FLt(l[i], l[i + 1])

InitSpectrum ==
    /\ \/ spectrum = EmptySpectrum
       \/ \E n \in 1..MaxSamples : \E l \in Seqs(SpectrumValues, n) : \E vs \in Seqs({Zero, FromInt(2)}, n) :
             /\ Increasing(l)
             /\ spectrum = PiecewiseLinearSpectrum(l, vs)
    /\ dist1 = None /\ dist2 = None /\ weights = None /\ sat = None /\ values = None
    /\ lambda = None /\ material = None
    /\ estimators = None /\ reservoirs = None /\ sampler = None
    /\ ret = None /\ prev = None

\* wavelengths on the half-integers from below the first to above the last
SpectrumQueries == {F(k, 2) : k \in (-1)..(2 * MaxSamples + 1)}

EvalSpectrum ==
    /\ ret = None
    /\ \E l \in SpectrumQueries :
          ret' = [op |-> "Eval", l |-> l, val |-> SpectrumEval(spectrum, l)]
    /\ prev' = None
    /\ UNCHANGED objs

\* files: unreadable, or up to MaxFile values
SpectrumFiles ==
    {[readable |-> FALSE, vals |-> <<>>]} \cup
    {[readable |-> TRUE, vals |-> q] : q \in UNION {Seqs({One, FromInt(2), FromInt(3)}, n) : n \in 0..MaxFile}}

ReadSpectrum ==
    /\ ret = None
    /\ \E file \in SpectrumFiles :
          ret' = [op |-> "Read", file |-> file] @@ SpectrumRead(file)
    /\ prev' = None
    /\ UNCHANGED objs

ReturnSpectrum ==
    /\ ret # None
    /\ ret' = None
    /\ prev' = None
    /\ UNCHANGED objs

NextSpectrum == EvalSpectrum \/ ReadSpectrum \/ ReturnSpectrum

SpecSpectrum == InitSpectrum /\ [][NextSpectrum]_vars

(* ---------------------------------------------------------------------- *)
(* DielectricMaterial and ThinDielectricMaterial: GetBSDF                  *)
(* ---------------------------------------------------------------------- *)
\* the number of wavelength samples of a SampledWavelengths
NSpectrumSamples == 4

\* SampledWavelengths::TerminateSecondaryWavelengths: the first sample's pdf
\* is divided by the sample count, the other pdfs become 0
TerminateSecondaryWavelengths(l) ==
    [l EXCEPT !.pdf = [i \in 1..NSpectrumSamples |->
                          IF i = 1 THEN FDiv(l.pdf[1], FromInt(NSpectrumSamples)) ELSE Zero]]

\* the result of a GetBSDF call: the BSDF returned (or nullptr), whether
\* TerminateSecondaryWavelengths was called, and lambda after the call
NullBSDF(l) == [bsdf |-> "nullptr", terminated |-> FALSE, lambda |-> l]

\* the index of refraction: from etaF when it is set, else from etaS, after
\* which the secondary wavelengths are terminated
DielectricEta(m, l) ==
    IF m.etaF THEN [bsdf |-> "BSDF", terminated |-> FALSE, lambda |-> l]
    ELSE [bsdf |-> "BSDF", terminated |-> TRUE, lambda |-> TerminateSecondaryWavelengths(l)]

\* faulty variant: the wavelengths are terminated whatever the source of eta
Dielectric_GetBSDF_AlwaysTerminate(m, l, matches) ==
    IF ~matches THEN NullBSDF(l)
    ELSE [bsdf |-> "BSDF", terminated |-> TRUE, lambda |-> TerminateSecondaryWavelengths(l)]

\* DielectricMaterial::GetBSDF; matches is the value of texEval.Matches
Dielectric_GetBSDF(m, l, matches) ==
    IF ~matches THEN NullBSDF(l) ELSE DielectricEta(m, l)

\* ThinDielectricMaterial::GetBSDF
ThinDielectric_GetBSDF(m, l, matches) ==
    IF ~matches THEN NullBSDF(l) ELSE DielectricEta(m, l)

\* --- the state machine of the materials ---
\* the constructors CHECK that exactly one of etaF and etaS is set
Materials ==
    {[kind |-> k, etaF |-> f, etaS |-> ~f] : k \in {"Dielectric", "ThinDielectric"}, f \in BOOLEAN}

PdfValues == {F(1, 2), One}

InitMaterial ==
    /\ material \in Materials
    /\ \E pdf \in [1..NSpectrumSamples -> PdfValues] : lambda = [pdf |-> pdf]
    /\ dist1 = None /\ dist2 = None /\ weights = None /\ sat = None /\ values = None
    /\ spectrum = None
    /\ estimators = None /\ reservoirs = None /\ sampler = None
    /\ ret = None /\ prev = None

\* GetBSDF on the material, with either answer of texEval.Matches; calls are
\* counted by the denominator of the first pdf, up to NSpectrumSamples^MaxCalls
GetBSDF ==
    /\ ret = None
    /\ lambda.pdf[1][2] < NSpectrumSamples ^ MaxCalls
    /\ \E matches \in BOOLEAN :
          \E r \in {IF material.kind = "Dielectric"
                    THEN Dielectric_GetBSDF(material, lambda, matches)
                    ELSE ThinDielectric_GetBSDF(material, lambda, matches)} :
             /\ ret' = [op |-> "GetBSDF", matches |-> matches, before |-> lambda,
                        bsdf |-> r.bsdf, terminated |-> r.terminated]
             /\ lambda' = r.lambda
    /\ prev' = None
    /\ UNCHANGED <<dist1, dist2, weights, sat, values, spectrum, material,
                   estimators, reservoirs, sampler>>

ReturnBSDF ==
    /\ ret # None
    /\ ret' = None
    /\ prev' = None
    /\ UNCHANGED objs

NextMaterial == GetBSDF \/ ReturnBSDF

SpecMaterial == InitMaterial /\ [][NextMaterial]_vars

(* ---------------------------------------------------------------------- *)
(* MixMaterial and LayeredMaterial: GetBSDF over two sub-materials         *)
(* ---------------------------------------------------------------------- *)
\* MaterialHandle::GetBSDF: the dispatch on the material's type
MaterialHandle_GetBSDF(m, l, matches) ==
    IF m.kind = "Dielectric" THEN Dielectric_GetBSDF(m, l, matches)
    ELSE ThinDielectric_GetBSDF(m, l, matches)

\* the BSDF built from the two sub-materials' results r1 and r2, of which r2
\* was computed on the lambda r1 left; ok is the value of the material's own
\* texEval.Matches where it is tested after the two calls
CombinedBSDF(r1, r2, ok) ==
    [bsdf |-> IF r1.bsdf = "nullptr" \/ r2.bsdf = "nullptr" \/ ~ok THEN "nullptr" ELSE "BSDF",
     terminated |-> <<r1.terminated, r2.terminated>>,
     lambda |-> r2.lambda]

\* the second sub-material is evaluated on the lambda the first one left
SecondBSDF(m2, r1, matches2, ok) ==
    CombinedBSDF(r1, MaterialHandle_GetBSDF(m2, r1.lambda, matches2), ok)

SubMaterialsBSDF(m1, m2, l, matches1, matches2, ok) ==
    SecondBSDF(m2, MaterialHandle_GetBSDF(m1, l, matches1), matches2, ok)

\* MixMaterial::GetBSDF: Matches on amount is tested first
Mix_GetBSDF(m, l, matches, matches1, matches2) ==
    IF ~matches THEN [bsdf |-> "nullptr", terminated |-> <<>>, lambda |-> l]
    ELSE SubMaterialsBSDF(m.m1, m.m2, l, matches1, matches2, TRUE)

\* LayeredMaterial::GetBSDF: top and base are evaluated first, Matches on
\* thickness, g and albedo is tested afterwards
Layered_GetBSDF(m, l, matches, matches1, matches2) ==
    SubMaterialsBSDF(m.top, m.base, l, matches1, matches2, matches)

\* --- the state machine of the two materials ---
CompositeMaterials ==
    {[kind |-> "Mix", m1 |-> a, m2 |-> b] : a, b \in Materials} \cup
    {[kind |-> "Layered", top |-> a, base |-> b] : a, b \in Materials}

InitComposite ==
    /\ material \in CompositeMaterials
    /\ \E pdf \in [1..NSpectrumSamples -> PdfValues] : lambda = [pdf |-> pdf]
    /\ dist1 = None /\ dist2 = None /\ weights = None /\ sat = None /\ values = None
    /\ spectrum = None
    /\ estimators = None /\ reservoirs = None /\ sampler = None
    /\ ret = None /\ prev = None

\* GetBSDF on the material, with every answer of texEval.Matches for the
\* material's and the sub-materials' textures
GetCompositeBSDF ==
    /\ ret = None
    /\ lambda.pdf[1][2] < NSpectrumSamples ^ MaxCalls
    /\ \E matches \in BOOLEAN : \E matches1 \in BOOLEAN : \E matches2 \in BOOLEAN :
          \E r \in {IF material.kind = "Mix"
                    THEN Mix_GetBSDF(material, lambda, matches, matches1, matches2)
                    ELSE Layered_GetBSDF(material, lambda, matches, matches1, matches2)} :
             /\ ret' = [op |-> "GetBSDF", before |-> lambda,
                        bsdf |-> r.bsdf, terminated |-> r.terminated]
             /\ lambda' = r.lambda
    /\ prev' = None
    /\ UNCHANGED <<dist1, dist2, weights, sat, values, spectrum, material,
                   estimators, reservoirs, sampler>>

ReturnCompositeBSDF ==
    /\ ret # None
    /\ ret' = None
    /\ prev' = None
    /\ UNCHANGED objs

NextComposite == GetCompositeBSDF \/ ReturnCompositeBSDF

SpecComposite == InitComposite /\ [][NextComposite]_vars

(* ---------------------------------------------------------------------- *)
(* Queries from concurrent threads on one constructed distribution        *)
(* ---------------------------------------------------------------------- *)
Threads == 1..NThreads

\* one constructed object: a PiecewiseConstant1D, a PiecewiseConstant2D, a
\* PiecewiseLinear2D, or a SATPiecewiseConstant2D with its SummedAreaTable
InitQueries ==
    /\ \/ /\ \E f \in Arrays(2, {One, FromInt(2)}) : dist1 = PiecewiseConstant1D(f, 2, Zero, One)
          /\ dist2 = None /\ sat = None /\ values = None
       \/ /\ \E data \in Array2Ds(2, 1, {One, FromInt(2)}) : \E dom \in Domains2 :
                dist2 = PiecewiseConstant2D(data, 2, 1, dom)
          /\ dist1 = None /\ sat = None /\ values = None
       \/ /\ \E data \in [0..3 -> PLValues] :
                dist2 = PiecewiseLinear2D(data, 2, 2, 1, <<Zero>>, TRUE, TRUE)
          /\ dist1 = None /\ sat = None /\ values = None
       \/ /\ \E v \in Array2Ds(2, 1, {One, FromInt(2)}) :
                /\ values = [v |-> v, nx |-> 2, ny |-> 1]
                /\ sat = SummedAreaTable(v, 2, 1)
          /\ dist1 = None /\ dist2 = None
    /\ weights = None /\ spectrum = None /\ lambda = None /\ material = None
    /\ estimators = None /\ reservoirs = None /\ sampler = None
    /\ ret = [t \in Threads |-> None]
    /\ prev = None

\* the queries of the object that exists
Queries ==
    IF dist1 # None
    THEN {[fn |-> "PiecewiseConstant1D::Sample", arg |-> F(1, 4)],
          [fn |-> "PiecewiseConstant1D::Sample", arg |-> F(1, 2)],
          [fn |-> "PiecewiseConstant1D::Invert", arg |-> F(1, 2)]}
    ELSE IF sat # None
    THEN {[fn |-> "SummedAreaTable::Sum", arg |-> <<<<F(1, 4), Zero>>, <<One, One>>>>],
          [fn |-> "SATPiecewiseConstant2D::Sample",
           arg |-> <<<<F(1, 3), F(1, 2)>>, <<<<Zero, Zero>>, <<One, One>>>>>>],
          [fn |-> "SATPiecewiseConstant2D::PDF",
           arg |-> <<<<F(1, 4), F(1, 2)>>, <<<<Zero, Zero>>, <<One, One>>>>>>]}
    ELSE IF "m_data" \in DOMAIN dist2
    THEN {[fn |-> "PiecewiseLinear2D::Sample", arg |-> PL_Invert(dist2, <<F(1, 2), F(1, 2)>>, Zero).p],
          [fn |-> "PiecewiseLinear2D::Invert", arg |-> <<F(1, 4), F(1, 2)>>],
          [fn |-> "PiecewiseLinear2D::Evaluate", arg |-> <<F(1, 4), F(1, 2)>>]}
    ELSE {[fn |-> "PiecewiseConstant2D::Sample", arg |-> <<F(1, 4), F(1, 2)>>],
          [fn |-> "PiecewiseConstant2D::PDF", arg |-> <<Zero, One>>],
          [fn |-> "PiecewiseConstant2D::Invert", arg |-> <<Zero, One>>]}

\* what the query returns, computed from the object's fields
QueryResult(q) ==
    CASE q.fn = "PiecewiseConstant1D::Sample" -> PC1D_Sample(dist1, q.arg)
      [] q.fn = "PiecewiseConstant1D::Invert" -> PC1D_Invert(dist1, q.arg)
      [] q.fn = "PiecewiseConstant2D::Sample" -> PC2D_Sample(dist2, q.arg)
      [] q.fn = "PiecewiseConstant2D::PDF" -> PC2D_PDF(dist2, q.arg)
      [] q.fn = "PiecewiseConstant2D::Invert" -> PC2D_Invert(dist2, q.arg)
      [] q.fn = "PiecewiseLinear2D::Sample" -> PL_Sample(dist2, q.arg, Zero)
      [] q.fn = "PiecewiseLinear2D::Invert" -> PL_Invert(dist2, q.arg, Zero)
      [] q.fn = "PiecewiseLinear2D::Evaluate" -> PL_Evaluate(dist2, q.arg, Zero)
      [] q.fn = "SummedAreaTable::Sum" -> SAT_Sum(sat, q.arg)
      [] q.fn = "SATPiecewiseConstant2D::Sample" -> SATPC_Sample(sat, values, q.arg[1], q.arg[2])
      [] q.fn = "SATPiecewiseConstant2D::PDF" -> SATPC_PDF(sat, values, q.arg[1], q.arg[2])

\* thread t enters a query
QueryCall(t) ==
    /\ ret[t] = None
    /\ \E q \in Queries : ret' = [ret EXCEPT ![t] = [op |-> "call", q |-> q]]
    /\ UNCHANGED <<objs, prev>>

\* faulty variant: the query records its name in a field the threads share
QueryReturn_Caching(t) ==
    /\ ret[t].op = "call"
    /\ ret' = [ret EXCEPT ![t] = [op |-> "result", q |-> ret[t].q, val |-> QueryResult(ret[t].q)]]
    /\ weights' = [last |-> ret[t].q.fn]
    /\ UNCHANGED <<dist1, dist2, sat, values, spectrum, lambda, material,
                   estimators, reservoirs, sampler, prev>>

\* thread t's query reads the fields and returns: the methods are const and
\* write only to locals and to the caller's result
QueryReturn(t) ==
    /\ ret[t].op = "call"
    /\ ret' = [ret EXCEPT ![t] = [op |-> "result", q |-> ret[t].q, val |-> QueryResult(ret[t].q)]]
    /\ UNCHANGED <<objs, prev>>

\* thread t drops its result
QueryDone(t) ==
    /\ ret[t].op = "result"
    /\ ret' = [ret EXCEPT ![t] = None]
    /\ UNCHANGED <<objs, prev>>

NextQueries == \E t \in Threads : QueryCall(t) \/ QueryReturn(t) \/ QueryDone(t)

SpecQueries == InitQueries /\ [][NextQueries]_vars

(* ---------------------------------------------------------------------- *)
(* VarianceEstimator<Float> (members mean, S and count)                    *)
(* ---------------------------------------------------------------------- *)
\* a default-constructed estimator
VarianceEstimator == [mean |-> Zero, S |-> Zero, count |-> 0]

\* Add(T v): Welford's algorithm; e already holds the incremented count
VE_AddWelford(e, v, delta) ==
    LET m == FAdd(e.mean, FDiv(delta, FromInt(e.count)))
    IN  [mean |-> m, S |-> FAdd(e.S, FMul(delta, FSub(v, m))), count |-> e.count]

VE_Add(e, v) == VE_AddWelford([e EXCEPT !.count = @ + 1], v, FSub(v, e.mean))

\* Sqr(x)
Sqr(x) == FMul(x, x)

\* faulty variant: mean is updated before S, which then reads the new mean
VE_AddEstimator_MeanFirst(e, ve) ==
    IF ve.count = 0 THEN e
    ELSE LET m == FDiv(FAdd(FMul(FromInt(e.count), e.mean), FMul(FromInt(ve.count), ve.mean)),
                       FromInt(e.count + ve.count))
         IN  [S |-> FAdd(FAdd(e.S, ve.S),
                         FDiv(FMul(FMul(Sqr(FSub(ve.mean, m)), FromInt(e.count)), FromInt(ve.count)),
                              FromInt(e.count + ve.count))),
              mean |-> m,
              count |-> e.count + ve.count]

\* Add(const VarianceEstimator &ve): Chan et al's parallel algorithm
VE_AddEstimator(e, ve) ==
    IF ve.count = 0 THEN e
    ELSE [S |-> FAdd(FAdd(e.S, ve.S),
                     FDiv(FMul(FMul(Sqr(FSub(ve.mean, e.mean)), FromInt(e.count)), FromInt(ve.count)),
                          FromInt(e.count + ve.count))),
          mean |-> FDiv(FAdd(FMul(FromInt(e.count), e.mean), FMul(FromInt(ve.count), ve.mean)),
                        FromInt(e.count + ve.count)),
          count |-> e.count + ve.count]

VE_Mean(e) == e.mean

VE_Variance(e) == IF e.count > 1 THEN FDiv(e.S, FromInt(e.count - 1)) ELSE Zero

VE_Count(e) == e.count

\* --- the per-task estimators of a reduction ---
Estimators == {"a", "b", "c"}

VEValues == {FromInt(-1), FromInt(2)}

\* prev[i] lists the values estimator i accounts for, in the order of the
\* calls that brought them
InitVariance ==
    /\ estimators = [i \in Estimators |-> VarianceEstimator]
    /\ prev = [i \in Estimators |-> <<>>]
    /\ ret = None
    /\ dist1 = None /\ dist2 = None /\ weights = None /\ sat = None /\ values = None
    /\ spectrum = None /\ lambda = None /\ material = None
    /\ reservoirs = None /\ sampler = None

\* estimators[i].Add(v)
AddValue ==
    /\ ret = None
    /\ \E i \in Estimators : \E v \in VEValues :
          /\ Len(prev[i]) < MaxAdds
          /\ estimators' = [estimators EXCEPT ![i] = VE_Add(@, v)]
          /\ prev' = [prev EXCEPT ![i] = Append(@, v)]
          /\ ret' = [op |-> "Add", into |-> i, v |-> v]
    /\ UNCHANGED <<dist1, dist2, weights, sat, values, spectrum, lambda, material,
                   reservoirs, sampler>>

\* estimators[i].Add(estimators[j]) for two distinct estimators
AddEstimator ==
    /\ ret = None
    /\ \E i \in Estimators : \E j \in Estimators \ {i} :
          /\ Len(prev[i]) + Len(prev[j]) <= MaxAdds
          /\ estimators' = [estimators EXCEPT ![i] = VE_AddEstimator(@, estimators[j])]
          /\ prev' = [prev EXCEPT ![i] = @ \o prev[j]]
          /\ ret' = [op |-> "Merge", into |-> i, from |-> j, before |-> estimators[i]]
    /\ UNCHANGED <<dist1, dist2, weights, sat, values, spectrum, lambda, material,
                   reservoirs, sampler>>

\* the call has returned
ReturnVariance ==
    /\ ret # None
    /\ ret' = None
    /\ UNCHANGED <<objs, prev>>

NextVariance == AddValue \/ AddEstimator \/ ReturnVariance

SpecVariance == InitVariance /\ [][NextVariance]_vars

(* ---------------------------------------------------------------------- *)
(* WeightedReservoirSampler (members nSamplesConsidered, weightSum,        *)
(* reservoirWeight and reservoir; rng.Uniform() is the argument u)         *)
(* ---------------------------------------------------------------------- *)
\* a default-constructed sampler; its reservoir holds a default T
WeightedReservoirSampler ==
    [nSamplesConsidered |-> 0, weightSum |-> Zero, reservoirWeight |-> Zero, reservoir |-> "T()"]

\* Add, after weightSum += weight: r already holds the new weightSum
WRS_AddChoose(r, smp, weight, effectiveSamples, u) ==
    IF r.nSamplesConsidered = 0 \/ FLt(u, FDiv(weight, r.weightSum))
    THEN [r EXCEPT !.reservoir = smp, !.reservoirWeight = weight,
                   !.nSamplesConsidered = @ + effectiveSamples]
    ELSE [r EXCEPT !.nSamplesConsidered = @ + effectiveSamples]

\* Add(smp, weight, effectiveSamples)
WRS_Add(r, smp, weight, effectiveSamples, u) ==
    WRS_AddChoose([r EXCEPT !.weightSum = FAdd(@, weight)], smp, weight, effectiveSamples, u)

\* Reset()
WRS_Reset(r) ==
    [r EXCEPT !.nSamplesConsidered = 0, !.reservoirWeight = Zero, !.weightSum = Zero]

WRS_NSamplesConsidered(r) == r.nSamplesConsidered

WRS_HasSample(r) == FLt(Zero, r.weightSum)

WRS_WeightSum(r) == r.weightSum

WRS_Weight(r) == r.reservoirWeight

WRS_GetSample(r) == r.reservoir

\* faulty variant: the count that Add added is not taken back
WRS_Merge_CountedTwice(r, wrs, u) ==
    IF WRS_HasSample(wrs)
    THEN [WRS_Add(r, WRS_GetSample(wrs), WRS_WeightSum(wrs), 1, u)
            EXCEPT !.nSamplesConsidered = @ + wrs.nSamplesConsidered]
    ELSE [r EXCEPT !.nSamplesConsidered = @ + wrs.nSamplesConsidered]

\* Merge(wrs), for a wrs that is another object than r
WRS_Merge(r, wrs, u) ==
    IF WRS_HasSample(wrs)
    THEN [WRS_Add(r, WRS_GetSample(wrs), WRS_WeightSum(wrs), 1, u)
            EXCEPT !.nSamplesConsidered = @ + (wrs.nSamplesConsidered - 1)]
    ELSE [r EXCEPT !.nSamplesConsidered = @ + wrs.nSamplesConsidered]

\* --- two samplers and their callers ---
Reservoirs == {"a", "b"}

\* the samples the callers add, each with the weight it is always added with
Samples == {"s0", "s1", "s2"}

SampleWeight(smp) ==
    CASE smp = "s0" -> Zero
      [] smp = "s1" -> One
      [] smp = "s2" -> FromInt(2)

\* values of rng.Uniform<Float>(), in [0, 1)
Uniforms == {Zero, F(1, 2), F(3, 4)}

InitReservoir ==
    /\ reservoirs = [i \in Reservoirs |-> WeightedReservoirSampler]
    /\ ret = None /\ prev = None
    /\ dist1 = None /\ dist2 = None /\ weights = None /\ sat = None /\ values = None
    /\ spectrum = None /\ lambda = None /\ material = None
    /\ estimators = None /\ sampler = None

\* reservoirs[i].Add(smp, weight)
AddSample ==
    /\ ret = None
    /\ \E i \in Reservoirs : \E smp \in Samples : \E u \in Uniforms :
          /\ reservoirs[i].nSamplesConsidered < MaxConsidered
          /\ reservoirs' = [reservoirs EXCEPT ![i] = WRS_Add(@, smp, SampleWeight(smp), 1, u)]
          /\ ret' = [op |-> "Add", into |-> i, before |-> reservoirs]
    /\ UNCHANGED <<dist1, dist2, weights, sat, values, spectrum, lambda, material,
                   estimators, sampler, prev>>

\* reservoirs[i].Merge(reservoirs[j]) for two distinct samplers
MergeReservoir ==
    /\ ret = None
    /\ \E i \in Reservoirs : \E j \in Reservoirs \ {i} : \E u \in Uniforms :
          /\ reservoirs[i].nSamplesConsidered + reservoirs[j].nSamplesConsidered <= MaxConsidered
          /\ reservoirs' = [reservoirs EXCEPT ![i] = WRS_Merge(@, reservoirs[j], u)]
          /\ ret' = [op |-> "Merge", into |-> i, from |-> j, before |-> reservoirs]
    /\ UNCHANGED <<dist1, dist2, weights, sat, values, spectrum, lambda, material,
                   estimators, sampler, prev>>

\* reservoirs[i].Reset()
ResetReservoir ==
    /\ ret = None
    /\ \E i \in Reservoirs :
          /\ reservoirs[i].nSamplesConsidered > 0
          /\ reservoirs' = [reservoirs EXCEPT ![i] = WRS_Reset(@)]
          /\ ret' = [op |-> "Reset", into |-> i, before |-> reservoirs]
    /\ UNCHANGED <<dist1, dist2, weights, sat, values, spectrum, lambda, material,
                   estimators, sampler, prev>>

\* the call has returned
ReturnReservoir ==
    /\ ret # None
    /\ ret' = None
    /\ UNCHANGED <<objs, prev>>

NextReservoir == AddSample \/ MergeReservoir \/ ResetReservoir \/ ReturnReservoir

SpecReservoir == InitReservoir /\ [][NextReservoir]_vars

(* ---------------------------------------------------------------------- *)
(* MaxMinDistSampler: the constructor                                      *)
(* ---------------------------------------------------------------------- *)
\* Log2Int(v) for v >= 1: the position of the highest set bit
RECURSIVE Log2Int(_)
Log2Int(v) == IF v <= 1 THEN 0 ELSE 1 + Log2Int(v \div 2)

\* IsPowerOf2(v): v && !(v & (v - 1))
IsPowerOf2(v) == v >= 1 /\ 2 ^ Log2Int(v) = v

\* RoundUpPow2(v) for v >= 1: the smallest power of two that is >= v
RoundUpPow2(v) == IF IsPowerOf2(v) THEN v ELSE 2 ^ (Log2Int(v) + 1)

\* the lambda that computes the first argument of the PixelSampler base;
\* warned lists the warnings it issued
RoundedDown(spp) ==
    IF Log2Int(spp) >= ArraySize_CMaxMinDist
    THEN [spp |-> 2 ^ (ArraySize_CMaxMinDist - 1), warned |-> <<"Rounding down">>]
    ELSE [spp |-> spp, warned |-> <<>>]

RoundedUp(r) ==
    IF ~IsPowerOf2(r.spp)
    THEN [spp |-> RoundUpPow2(r.spp), warned |-> Append(r.warned, "rounded up")]
    ELSE r

BaseSamplesPerPixel(spp) == RoundedUp(RoundedDown(spp))

\* the constructor: samplesPerPixel is the member of the base; in the body
\* the name samplesPerPixel is the parameter, and a failed CHECK ends the
\* process before CPixel is assigned
MaxMinDistSampler(samplesPerPixel, nSampledDimensions) ==
    [samplesPerPixel |-> BaseSamplesPerPixel(samplesPerPixel).spp,
     warned |-> BaseSamplesPerPixel(samplesPerPixel).warned,
     nSampledDimensions |-> nSampledDimensions,
     Cindex |-> Log2Int(samplesPerPixel),
     fatal |-> ~(Log2Int(samplesPerPixel) >= 0 /\ Log2Int(samplesPerPixel) < ArraySize_CMaxMinDist),
     CPixel |-> IF Log2Int(samplesPerPixel) >= 0 /\ Log2Int(samplesPerPixel) < ArraySize_CMaxMinDist
                THEN [CMaxMinDist |-> Log2Int(samplesPerPixel)]
                ELSE None]

\* --- construction from every sample count ---
InitMaxMin ==
    /\ sampler = None
    /\ ret = None /\ prev = None
    /\ dist1 = None /\ dist2 = None /\ weights = None /\ sat = None /\ values = None
    /\ spectrum = None /\ lambda = None /\ material = None
    /\ estimators = None /\ reservoirs = None

\* new MaxMinDistSampler(samplesPerPixel, nSampledDimensions)
Construct ==
    /\ sampler = None
    /\ \E samplesPerPixel \in 1..MaxSpp : \E nSampledDimensions \in {4} :
          /\ sampler' = MaxMinDistSampler(samplesPerPixel, nSampledDimensions)
          /\ ret' = [op |-> "MaxMinDistSampler", samplesPerPixel |-> samplesPerPixel]
    /\ UNCHANGED <<dist1, dist2, weights, sat, values, spectrum, lambda, material,
                   estimators, reservoirs, prev>>

NextMaxMin == Construct

SpecMaxMin == InitMaxMin /\ [][NextMaxMin]_vars

(* ---------------------------------------------------------------------- *)
(* Claims on PiecewiseConstant1D (specification SpecPC1D)                 *)
(* ---------------------------------------------------------------------- *)
HasZeroBucket(d) == \E i \in 0..(d.n - 1) : d.func[i] = Zero

AllZero(d) == \A i \in 0..(d.n - 1) : d.func[i] = Zero

\* C1: a constructed PiecewiseConstant1D has a cdf of n+1 entries with
\* cdf[0] = 0, cdf[i] <= cdf[i+1] for i in 0..n-1 and cdf[n] = 1, whether
\* the integral is positive or zero.
C1_CdfShape ==
    /\ DOMAIN dist1.cdf = 0..dist1.n
    /\ dist1.cdf[0] = Zero
    /\ \A i \in 0..(dist1.n - 1) : FLe(dist1.cdf[i], dist1.cdf[i + 1])
    /\ dist1.cdf[dist1.n] = One

C1_Witness ==
    /\ dist1.n >= 2 /\ FLt(Zero, dist1.funcInt) /\ HasZeroBucket(dist1)
    /\ dist1.min # Zero

\* the lower end of the i-th of the n equal sub-intervals of [min, max]
SubIntervalStart(d, i) ==
    FAdd(d.min, FDiv(FMul(FromInt(i), FSub(d.max, d.min)), FromInt(d.n)))

\* C2: Sample(u) selects the largest index i with cdf[i] <= u, that offset is
\* in 0..n-1, the returned point lies in the offset-th sub-interval of
\* [min,max], and pdf is func[offset]/funcInt (0 when funcInt is 0).
C2_SampleSegment ==
    ret.op = "Sample" =>
        /\ ret.off \in 0..(dist1.n - 1)
        /\ FLe(dist1.cdf[ret.off], ret.u)
        /\ \A j \in 0..dist1.n : FLe(dist1.cdf[j], ret.u) => j <= ret.off
        /\ FLe(SubIntervalStart(dist1, ret.off), ret.x)
        /\ FLt(ret.x, SubIntervalStart(dist1, ret.off + 1))
        /\ ret.pdf = IF FLt(Zero, dist1.funcInt)
                     THEN FDiv(dist1.func[ret.off], dist1.funcInt) ELSE Zero

\* a sample that falls exactly on a CDF breakpoint behind a zero-valued bucket
C2_Witness ==
    /\ ret.op = "Sample" /\ ret.off >= 2
    /\ dist1.func[ret.off - 1] = Zero
    /\ ret.u = dist1.cdf[ret.off]

\* C3: Invert applied to the point returned by Sample(u) has a value, and
\* the value is u.
C3_InvertSample ==
    (ret.op = "Invert" /\ prev.op = "Sample" /\ ret.v = prev.x) =>
        (ret.has /\ ret.val = prev.u)

C3_Witness ==
    /\ ret.op = "Invert" /\ prev.op = "Sample" /\ ret.v = prev.x
    /\ HasZeroBucket(dist1) /\ ~AllZero(dist1)
    /\ prev.u # dist1.cdf[prev.off]

\* C4: a PiecewiseConstant1D of all-zero samples has funcInt = 0 and
\* cdf[i] = i/n; Sample(u) returns min + u*(max-min) and pdf 0.
C4_AllZeroUniform ==
    AllZero(dist1) =>
        /\ dist1.funcInt = Zero
        /\ \A i \in 0..dist1.n : dist1.cdf[i] = FDiv(FromInt(i), FromInt(dist1.n))
        /\ ret.op = "Sample" =>
              /\ ret.x = FAdd(dist1.min, FMul(ret.u, FSub(dist1.max, dist1.min)))
              /\ ret.pdf = Zero

C4_Witness ==
    /\ AllZero(dist1) /\ dist1.n = 3 /\ ret.op = "Sample" /\ ret.u = F(1, 2)
    /\ ret.x = FDiv(FAdd(dist1.min, dist1.max), FromInt(2))

\* C27: for a PiecewiseConstant1D with funcInt > 0 and every u in [0,1), the
\* bucket chosen by Sample(u) has func[offset] > 0, so the reported pdf is
\* strictly positive.
C27_SampledBucketPositive ==
    (ret.op = "Sample" /\ FLt(Zero, dist1.funcInt)) =>
        /\ FLt(Zero, dist1.func[ret.off])
        /\ FLt(Zero, ret.pdf)

\* u = 0 on a function whose first bucket is zero: the sample skips it
C27_Witness ==
    /\ ret.op = "Sample" /\ ret.u = Zero
    /\ dist1.n = 3 /\ dist1.func[0] = Zero /\ dist1.func[1] = Zero /\ dist1.func[2] = FromInt(2)
    /\ ret.off = 2 /\ FLt(Zero, ret.pdf)

(* ---------------------------------------------------------------------- *)
(* Claims on PiecewiseConstant2D (specification SpecPC2D)                 *)
(* ---------------------------------------------------------------------- *)
\* the value of the texel of the grid that contains the domain point p
TexelValue(d, p) ==
    LET o == Offset(d.domain, p)
        ix == CHOOSE i \in 0..(d.nx - 1) :
                 /\ FLe(F(i, d.nx), o[1])
                 /\ FLt(o[1], F(i + 1, d.nx)) \/ (i = d.nx - 1 /\ o[1] = One)
        iy == CHOOSE i \in 0..(d.ny - 1) :
                 /\ FLe(F(i, d.ny), o[2])
                 /\ FLt(o[2], F(i + 1, d.ny)) \/ (i = d.ny - 1 /\ o[2] = One)
    IN  d.pConditionalY[iy].func[ix]

\* C5: the pdf reported by Sample(u) equals PDF(p) at the returned point p,
\* which is the value of the texel containing p divided by the marginal's
\* integral, for every grid of non-negative values.
C5_SamplePdfIsPDF ==
    (ret.op = "PDF" /\ prev.op = "Sample" /\ ret.p = prev.p) =>
        /\ ret.val = prev.pdf
        /\ ret.val = FDiv(TexelValue(dist2, ret.p), dist2.pMarginal.funcInt)

\* C6: Invert applied to the point returned by Sample(u) has a value equal
\* to u, and the row Invert derives from the point's y coordinate is the row
\* the marginal selected in Sample.
C6_InvertSample2D ==
    (ret.op = "Invert" /\ prev.op = "Sample" /\ ret.p = prev.p) =>
        (ret.has /\ ret.row = prev.y /\ ret.val = prev.u)

\* a round trip through the second row of a grid whose first row is all zero
C6_Witness ==
    /\ ret.op = "Invert" /\ prev.op = "Sample" /\ ret.p = prev.p
    /\ dist2.nx = 2 /\ dist2.ny = 2
    /\ AllZero(dist2.pConditionalY[0])
    /\ HasZeroBucket(dist2.pConditionalY[1])
    /\ prev.y = 1 /\ prev.u = <<F(2, 3), F(1, 4)>>

(* ---------------------------------------------------------------------- *)
(* Claims on SampleDiscrete (specification SpecDiscrete)                  *)
(* ---------------------------------------------------------------------- *)
\* what is left of u*sum after the weights before index i are subtracted
Remainder(w, n, u, i) == FSub(FMul(u, SumWeights(w, n)), SumWeights(w, i))

\* the index the linear scan stops at: the first i whose weight exceeds the
\* remainder, or n - 1 when the scan runs past the last bucket
ScanIndex(w, n, u) ==
    LET S == {i \in 0..(n - 1) : FLt(Remainder(w, n, u, i), w[i])}
    IN  IF S = {} THEN n - 1 ELSE CHOOSE i \in S : \A j \in S : i <= j

\* C7: on a non-empty list of n non-negative weights SampleDiscrete returns,
\* for every u in [0,1), an index in 0..n-1 (the first bucket whose weight
\* exceeds the remainder of u*sum, or n-1 when the scan runs past the last
\* bucket), and the pdf is weights[index]/sum.
C7_IndexInRange ==
    (ret.op = "SampleDiscrete" /\ weights.n >= 1) =>
        /\ ret.returned
        /\ ret.index \in 0..(weights.n - 1)
        /\ ret.index = ScanIndex(weights.w, weights.n, ret.u)
        /\ ret.pdf = FDiv(weights.w[ret.index], SumWeights(weights.w, weights.n))

\* C8: on an empty weight list SampleDiscrete returns index -1 and pdf 0
\* and reads no weight.
C8_EmptyList ==
    (ret.op = "SampleDiscrete" /\ weights.n = 0) =>
        (ret.returned /\ ret.index = -1 /\ ret.pdf = Zero /\ ret.reads = 0 /\ ~ret.oob)

C8_Witness ==
    ret.op = "SampleDiscrete" /\ weights.n = 0 /\ ret.index = -1 /\ ret.u = F(1, 2)

\* C26: for every non-empty list of n non-negative weights (the all-zero
\* list included) and every u in [0,1), SampleDiscrete reads no weights[i]
\* with i >= n during its scan and divides neither by a zero sum nor by a
\* zero weight when it computes pdf and uRemapped.
C26_NoReadPastEndNoZeroDivisor ==
    (ret.op = "SampleDiscrete" /\ weights.n >= 1) =>
        /\ ~ret.oob
        /\ SumWeights(weights.w, weights.n) # Zero
        /\ ret.returned => weights.w[ret.index] # Zero

(* ---------------------------------------------------------------------- *)
(* Claims on SummedAreaTable (specification SpecSAT)                      *)
(* ---------------------------------------------------------------------- *)
RECURSIVE SumCells(_, _)
SumCells(v, cells) ==
    IF cells = {} THEN Zero
    ELSE LET c == CHOOSE c \in cells : TRUE
         IN  FAdd(v[c[2]][c[1]], SumCells(v, cells \ {c}))

AllCells == (0..(values.nx - 1)) \X (0..(values.ny - 1))

\* the cells <<x, y>> an aligned rectangle covers
Covered(extent) ==
    {c \in AllCells :
        /\ FLe(extent[1][1], F(c[1], values.nx)) /\ FLe(F(c[1] + 1, values.nx), extent[2][1])
        /\ FLe(extent[1][2], F(c[2], values.ny)) /\ FLe(F(c[2] + 1, values.ny), extent[2][2])}

FullDomain == <<<<Zero, Zero>>, <<One, One>>>>

IsAligned(extent) ==
    /\ extent[1][1] \in Boundaries(values.nx) /\ extent[2][1] \in Boundaries(values.nx)
    /\ extent[1][2] \in Boundaries(values.ny) /\ extent[2][2] \in Boundaries(values.ny)

\* C9 as stated: Sum over the full domain [0,1]x[0,1] equals the total sum
\* of all values of the underlying array.
C9_FullSumIsTotal ==
    (ret.op = "Sum" /\ ret.extent = FullDomain) =>
        ret.val = SumCells(values.v, AllCells)

\* C9 amended: Sum over the full domain equals the total sum of the values
\* divided by the number of cells nx*ny, and 0 when that total is negative.
C9_FullSumIsAverage ==
    (ret.op = "Sum" /\ ret.extent = FullDomain) =>
        ret.val = FMax(FDiv(SumCells(values.v, AllCells), FromInt(values.nx * values.ny)),
                       Zero)

C9_Witness ==
    /\ ret.op = "Sum" /\ ret.extent = FullDomain
    /\ values.nx = 2 /\ values.ny = 2
    /\ SumCells(values.v, AllCells) = FromInt(3)
    /\ ret.val = F(3, 4)

\* C10 as stated: for every rectangle with corners on cell boundaries,
\* Sum(rect) equals the sum of the values of the covered cells, each divided
\* by nx*ny; corner lookups with x = 0 or y = 0 contribute 0.
C10_AlignedSumIsCovered ==
    (ret.op = "Sum" /\ IsAligned(ret.extent)) =>
        /\ ret.val = FDiv(SumCells(values.v, Covered(ret.extent)),
                          FromInt(values.nx * values.ny))
        /\ ret.extent[1][1] = Zero => (ret.corners.minmax = Zero /\ ret.corners.minmin = Zero)
        /\ ret.extent[1][2] = Zero => (ret.corners.maxmin = Zero /\ ret.corners.minmin = Zero)

\* C10 amended: Sum(rect) equals the sum of the values of the covered cells
\* divided by nx*ny when that sum is not negative, and 0 when it is negative;
\* corner lookups with x = 0 or y = 0 contribute 0.
C10_AlignedSumIsCoveredClamped ==
    (ret.op = "Sum" /\ IsAligned(ret.extent)) =>
        /\ ret.val = FMax(FDiv(SumCells(values.v, Covered(ret.extent)),
                               FromInt(values.nx * values.ny)), Zero)
        /\ ret.extent[1][1] = Zero => (ret.corners.minmax = Zero /\ ret.corners.minmin = Zero)
        /\ ret.extent[1][2] = Zero => (ret.corners.maxmin = Zero /\ ret.corners.minmin = Zero)

\* the rectangle that covers only the upper right cell of a 2x2 array
C10_Witness ==
    /\ ret.op = "Sum" /\ values.nx = 2 /\ values.ny = 2
    /\ ret.extent = <<<<F(1, 2), F(1, 2)>>, <<One, One>>>>
    /\ values.v[1][1] = FromInt(2) /\ values.v[0][0] = FromInt(-1)
    /\ ret.val = F(1, 2)

NonNegativeValues == \A c \in AllCells : FLe(Zero, values.v[c[2]][c[1]])

\* rectangle a lies in rectangle b
Contained(a, b) ==
    /\ FLe(b[1][1], a[1][1]) /\ FLe(a[2][1], b[2][1])
    /\ FLe(b[1][2], a[1][2]) /\ FLe(a[2][2], b[2][2])

\* the lambda Px of SATPiecewiseConstant2D::Sample for the bounds b whose
\* sum is sumb
Px(b, sumb, x) == Marginal(sat, [b |-> b, axis |-> 1, denom |-> sumb], x)

\* abscissae of b on cell boundaries and cell centres
Abscissae(b) ==
    {x \in Boundaries(2 * sat.xSize) : FLe(b[1][1], x) /\ FLe(x, b[2][1])}

\* C21: for a SummedAreaTable built from non-negative values, Sum(a) <= Sum(b)
\* for every rectangle a contained in b; and when Sum(b) > 0 (the case in
\* which Sample bisects) the marginal Px is non-decreasing on
\* [b.pMin.x, b.pMax.x], 0 at b.pMin.x and 1 at b.pMax.x.
C21_SumMonotone ==
    (ret.op = "Sum" /\ NonNegativeValues) =>
        /\ \A a \in AlignedExtents \cup InnerExtents :
              Contained(a, ret.extent) => FLe(SAT_Sum(sat, a), ret.val)
        /\ FLt(Zero, ret.val) =>
              /\ Px(ret.extent, ret.val, ret.extent[1][1]) = Zero
              /\ Px(ret.extent, ret.val, ret.extent[2][1]) = One
              /\ \A x1, x2 \in Abscissae(ret.extent) :
                    FLe(x1, x2) => FLe(Px(ret.extent, ret.val, x1), Px(ret.extent, ret.val, x2))

\* the upper row of a 2x2 table whose upper right cell is empty: a proper
\* part of the domain with a positive sum, whose marginal reaches 1 half way
C21_Witness ==
    /\ ret.op = "Sum" /\ NonNegativeValues
    /\ values.nx = 2 /\ values.ny = 2
    /\ ret.extent = <<<<Zero, F(1, 2)>>, <<One, One>>>>
    /\ values.v[0][0] = FromInt(2) /\ values.v[1][0] = FromInt(2) /\ values.v[1][1] = Zero
    /\ ret.val = F(1, 2)
    /\ Px(ret.extent, ret.val, F(1, 2)) = One

(* ---------------------------------------------------------------------- *)
(* Claims on SATPiecewiseConstant2D (specification SpecSATPC)             *)
(* ---------------------------------------------------------------------- *)
\* C11: Sample(u, b, pdf) sets pdf to 0 whenever the table's sum over b is
\* <= 0, and whenever the sum over the one-cell-wide x-slab chosen in the
\* first stage is <= 0; no bisection is run on a denominator that is not
\* positive.
SlabChosen == ret.by # <<>>

C13_UnnormalizedSampled ==
    ~dist2.normalize =>
        /\ ~dist2.fatal
        /\ DOMAIN dist2.m_marginal_cdf # {} /\ DOMAIN dist2.m_conditional_cdf # {}
        /\ (ret.op = "Evaluate" /\ ret.pos = <<Zero, Zero>> /\ ret.param = Zero) =>
              ret.val = dist2.data[0]

BranchesMatch == ret.b0Greater = ~prev.offsetPositive

TriangleRoundTrip ==
    ret.op = "InvertUniformTriangleSample" /\ prev.op = "SampleUniformTriangle"

\* C15 as stated: for every u in [0,1)^2 the inverse of the sampled point is
\* u, and the branch the inverse takes matches the branch the forward map
\* took, also on the diagonal u[0] = u[1].
C15_RoundTripBranchesMatch ==
    TriangleRoundTrip => (ret.u = prev.u /\ BranchesMatch)

\* C15: for every u in [0,1)^2 the inverse of the sampled point is u; off the
\* diagonal the inverse takes the branch matching the forward map's; on the
\* diagonal the forward map takes its second branch (offset = 0), the inverse
\* takes its second branch too (b0 = b1), which is not the matching one, and
\* the two formulas agree there.
C15_RoundTrip ==
    TriangleRoundTrip =>
        /\ ret.u = prev.u
        /\ prev.u[1] # prev.u[2] => BranchesMatch
        /\ prev.u[1] = prev.u[2] => (~prev.offsetPositive /\ ~ret.b0Greater)

C15_Witness ==
    /\ TriangleRoundTrip
    /\ prev.u = <<F(3, 8), F(3, 8)>> /\ ret.u = prev.u
    /\ ~BranchesMatch

(* ---------------------------------------------------------------------- *)
(* Claims on the smoothstep warp (specification SpecSmoothStep)           *)
(* ---------------------------------------------------------------------- *)
\* C16: for every start < end and every u in (0,1), InvertSmoothStepSample
\* applied to SampleSmoothStep(u, start, end) equals u.
C16_InvertSampleSmoothStep ==
    (ret.op = "InvertSmoothStepSample" /\ prev.op = "SampleSmoothStep") => ret.u = prev.u

(* ---------------------------------------------------------------------- *)
(* Claims on PiecewiseLinearSpectrum (specification SpecSpectrum)         *)
(* ---------------------------------------------------------------------- *)
\* the last index of the spectrum's samples
LastSample == Size(spectrum.lambda) - 1

\* C17: evaluation at wavelength l returns the first value for l at or below
\* the first wavelength, the last value for l at or above the last
\* wavelength, otherwise the linear interpolation between the two
\* neighbouring samples whose wavelengths bracket l; a spectrum with no
\* samples evaluates to 0.
C17_EvalClampsAndInterpolates ==
    ret.op = "Eval" =>
        IF Size(spectrum.lambda) = 0 THEN ret.val = Zero
        ELSE IF FLe(ret.l, spectrum.lambda[0]) THEN ret.val = spectrum.v[0]
        ELSE IF FLe(spectrum.lambda[LastSample], ret.l) THEN ret.val = spectrum.v[LastSample]
        ELSE \E i \in 0..(LastSample - 1) :
                /\ FLe(spectrum.lambda[i], ret.l) /\ FLe(ret.l, spectrum.lambda[i + 1])
                /\ ret.val = FAdd(spectrum.v[i],
                                  FMul(FDiv(FSub(ret.l, spectrum.lambda[i]),
                                            FSub(spectrum.lambda[i + 1], spectrum.lambda[i])),
                                       FSub(spectrum.v[i + 1], spectrum.v[i])))

\* an evaluation strictly inside the second of two segments of different
\* slope
C17_Witness ==
    /\ ret.op = "Eval" /\ Size(spectrum.lambda) = 3
    /\ FLt(spectrum.lambda[1], ret.l) /\ FLt(ret.l, spectrum.lambda[2])
    /\ spectrum.v[1] # spectrum.v[2] /\ spectrum.v[0] = spectrum.v[1]
    /\ ret.val # spectrum.v[1] /\ ret.val # spectrum.v[2]

\* the file's values are wavelength-value pairs with strictly increasing
\* wavelengths
WellFormed(file) ==
    /\ file.readable
    /\ Len(file.vals) % 2 = 0
    /\ \A i \in 1..(Len(file.vals) \div 2 - 1) : FLt(file.vals[2 * i - 1], file.vals[2 * i + 1])

\* C18: Read returns a spectrum only when the file could be read, holds an
\* even number of values and its wavelengths are strictly increasing; in
\* every other case it returns an empty result and no spectrum object is
\* allocated.
C18_ReadRejectsMalformed ==
    ret.op = "Read" =>
        /\ ret.result = "spectrum" =>
              /\ WellFormed(ret.file)
              /\ ~ret.handle.fatal
              /\ Size(ret.handle.lambda) = Len(ret.file.vals) \div 2
              /\ \A i \in 0..(Size(ret.handle.lambda) - 1) :
                    /\ ret.handle.lambda[i] = ret.file.vals[2 * i + 1]
                    /\ ret.handle.v[i] = ret.file.vals[2 * i + 2]
        /\ ~WellFormed(ret.file) => (ret.result = "none" /\ ~ret.allocated)

\* a file rejected for two equal neighbouring wavelengths
C18_Witness ==
    /\ ret.op = "Read" /\ ret.result = "none" /\ ~ret.allocated
    /\ ret.file.readable /\ Len(ret.file.vals) = 4
    /\ ret.file.vals[1] = ret.file.vals[3]

\* C30: constructing a PiecewiseLinearSpectrum from zero samples, as Read
\* does for a readable file with no values, completes (the loop bound
\* lambda.size() - 1 does not wrap and no element is read), and the spectrum
\* evaluates to 0 at every wavelength.
C30_ReadOfEmptyFileIsZeroSpectrum ==
    (ret.op = "Read" /\ ret.file.readable /\ ret.file.vals = <<>>) =>
        /\ ret.result = "spectrum"
        /\ ~ret.handle.fatal
        /\ \A l \in SpectrumQueries : SpectrumEval(ret.handle, l) = Zero

(* ---------------------------------------------------------------------- *)
(* Claims on the dielectric materials (specification SpecMaterial)        *)
(* ---------------------------------------------------------------------- *)
\* C19: TerminateSecondaryWavelengths sets the pdf of every wavelength sample
\* except the first to 0 and divides the first sample's pdf by the sample
\* count; GetBSDF of DielectricMaterial and ThinDielectricMaterial calls it
\* exactly when the index of refraction comes from etaS, never when it comes
\* from etaF or when the texture-match check fails.
C19_TerminateOnSpectralEta ==
    ret.op = "GetBSDF" =>
        /\ ret.terminated <=> (ret.matches /\ material.etaS)
        /\ ret.terminated =>
              /\ lambda.pdf[1] = FDiv(ret.before.pdf[1], FromInt(NSpectrumSamples))
              /\ \A i \in 2..NSpectrumSamples : lambda.pdf[i] = Zero
        /\ ~ret.terminated => lambda = ret.before
        /\ ret.bsdf = "nullptr" <=> ~ret.matches

\* a call through etaS on wavelengths none of which is terminated yet
C19_Witness ==
    /\ ret.op = "GetBSDF" /\ ret.terminated /\ material.kind = "ThinDielectric"
    /\ \A i \in 1..NSpectrumSamples : ret.before.pdf[i] # Zero
    /\ lambda.pdf[1] = F(1, 8) /\ lambda.pdf[2] = Zero

ResultsAsSequential ==
    \A t \in Threads : ret[t].op = "result" => ret[t].val = QueryResult(ret[t].q)

RECURSIVE AddedOneByOne(_)
AddedOneByOne(seq) ==
    IF seq = <<>> THEN VarianceEstimator
    ELSE VE_Add(AddedOneByOne(SubSeq(seq, 1, Len(seq) - 1)), seq[Len(seq)])

SameStatistics(e, f) ==
    /\ VE_Count(e) = VE_Count(f)
    /\ VE_Mean(e) = VE_Mean(f)
    /\ VE_Variance(e) = VE_Variance(f)

\* C22: an estimator that added xs and then merged an estimator that added ys
\* has the Count, Mean and Variance of one estimator that added xs then ys,
\* whatever the order and grouping of the merges that built the two, and
\* merging an estimator with count 0 changes nothing.
C22_MergeIsSequential ==
    /\ \A i \in Estimators : SameStatistics(estimators[i], AddedOneByOne(prev[i]))
    /\ (ret.op = "Merge" /\ estimators[ret.from].count = 0) =>
          estimators[ret.into] = ret.before

\* a has just merged b, which was itself merged from two values, into its own
\* single value
C22_Witness ==
    /\ ret.op = "Merge" /\ ret.into = "a" /\ ret.from = "b"
    /\ prev["a"] = <<FromInt(2), FromInt(-1), FromInt(2)>>
    /\ prev["b"] = <<FromInt(-1), FromInt(2)>>
    /\ prev["c"] = <<FromInt(2)>>
    /\ VE_Variance(estimators["a"]) = FromInt(3)

(* ---------------------------------------------------------------------- *)
(* Claims on WeightedReservoirSampler (specification SpecReservoir)        *)
(* ---------------------------------------------------------------------- *)
\* C23: after a.Merge(b) with non-negative weights, a.NSamplesConsidered() is
\* the sum of both samplers' previous counts and a.WeightSum() the sum of both
\* previous weight sums, whether or not b holds a sample, and b is unchanged.
C23_MergeConservesTotals ==
    ret.op = "Merge" =>
        /\ WRS_NSamplesConsidered(reservoirs[ret.into]) =
              WRS_NSamplesConsidered(ret.before[ret.into]) + WRS_NSamplesConsidered(ret.before[ret.from])
        /\ WRS_WeightSum(reservoirs[ret.into]) =
              FAdd(WRS_WeightSum(ret.before[ret.into]), WRS_WeightSum(ret.before[ret.from]))
        /\ reservoirs[ret.from] = ret.before[ret.from]

\* a, holding a sample, has merged b, which held a sample after two Adds
C23_Witness ==
    /\ ret.op = "Merge" /\ ret.into = "a"
    /\ WRS_HasSample(ret.before["a"]) /\ WRS_HasSample(ret.before["b"])
    /\ WRS_NSamplesConsidered(ret.before["b"]) = 2
    /\ WRS_NSamplesConsidered(reservoirs["a"]) = 3
    /\ WRS_WeightSum(reservoirs["a"]) = FromInt(4)

\* C28: whenever HasSample() is true the reservoir holds a sample that was
\* added with a positive weight, and Weight() equals the weight with which
\* that sample was originally added by a caller.
C28_WeightIsOriginal ==
    \A i \in Reservoirs :
        WRS_HasSample(reservoirs[i]) =>
            /\ WRS_GetSample(reservoirs[i]) \in Samples
            /\ FLt(Zero, SampleWeight(WRS_GetSample(reservoirs[i])))
            /\ WRS_Weight(reservoirs[i]) = SampleWeight(WRS_GetSample(reservoirs[i]))

(* ---------------------------------------------------------------------- *)
(* Claims on MaxMinDistSampler (specification SpecMaxMin)                  *)
(* ---------------------------------------------------------------------- *)
\* C24: for every samplesPerPixel >= 1 the sample count passed to the
\* PixelSampler base is a power of two and is at most 2^(N-1), N being the
\* number of entries of CMaxMinDist.
C24_BaseCountSupported ==
    sampler # None =>
        /\ IsPowerOf2(sampler.samplesPerPixel)
        /\ sampler.samplesPerPixel <= 2 ^ (ArraySize_CMaxMinDist - 1)

\* C25: for every samplesPerPixel >= 1 the construction completes with its
\* CHECK satisfied, and CPixel is the entry of CMaxMinDist whose index is
\* log2 of the sample count given to the base.
C25_CPixelMatchesBaseCount ==
    sampler # None =>
        /\ ~sampler.fatal
        /\ sampler.CPixel = [CMaxMinDist |-> Log2Int(sampler.samplesPerPixel)]

(* ---------------------------------------------------------------------- *)
(* Claims on the bisection helper (specification SpecBisect)              *)
(* ---------------------------------------------------------------------- *)
\* C12: the bisection helper terminates for every interval, resolution and
\* target, also when the target lies exactly on a cell boundary k/n: every
\* iteration of the loop changes the bracket [min, max] (the loop is
\* deterministic, so an iteration that leaves the bracket unchanged is
\* repeated forever).
C12_BisectionProgress ==
    [][(ret.pc = "loop" /\ ret'.pc = "loop") =>
           <<ret'.min, ret'.max>> # <<ret.min, ret.max>>]_vars

====
